---- MODULE Spec2Model ----
(***************************************************************************)
(* A model of the DataSet engine of godata: the cursor over the            *)
(* materialised row set, the execution operations with the driver calls    *)
(* they make, and the SQL assembly pipeline (macros, master-detail         *)
(* wrapper, positional placeholder translation).                           *)
(*                                                                         *)
(* The canonical implementation is the DataSet of                          *)
(* src/examples/events/.env (lines 53-1189); src/godata.go holds an        *)
(* earlier copy of the same type.  Texts are sequences of one-character    *)
(* strings, so that searching and rewriting are computed, not assumed.     *)
(***************************************************************************)
EXTENDS Integers, Sequences, FiniteSets, TLC

\* ------------------------------------------------------------------ bounds
MaxRows == 3
MaxBatch == 3

\* The key values a row can hold.
RowVals == {1, 2}

RECURSIVE SeqsUpTo(_, _)
SeqsUpTo(S, n) ==
  IF n = 0 THEN {<<>>}
  ELSE LET shorter == SeqsUpTo(S, n - 1)
       IN shorter \cup {Append(s, x) : s \in {t \in shorter : Len(t) = n - 1}, x \in S}

RowSets == SeqsUpTo(RowVals, MaxRows)

Outcomes == {"ok", "fail"}

VARIABLES
  hasTx,        \* ds.Tx != nil
  hasCtx,       \* ds.Ctx != nil
  Rows,         \* ds.Rows: the row store (each row stands for its key value)
  Fields,       \* ds.Fields.List: name, kind, order and index of each field
  Index,        \* ds.Index
  Recno,        \* ds.Recno
  lastOp,       \* the operation that ran last
  result,       \* how it ended: "ok", "err" or "panic" ("none" before any)
  err,          \* which error value it returned ("nil" when none)
  calls,        \* the driver calls it made, in order
  drvRows,      \* the rows the driver returned to the last Open
  steps,        \* Next calls since the last First with nothing between (-1: none)
  found,        \* the value returned by the last Locate
  arg,          \* the argument the last operation was called with
  dest,         \* the target of the last ToStruct, before and after the call
  Sql,          \* ds.Sql.Text()
  Params,       \* ds.Params.List
  BatchSize,    \* ds.Params.BatchSize
  Macros,       \* ds.Macros.List
  MasterSource, \* ds.MasterSource
  master,       \* the master DataSet (rows and cursor) MasterSource refers to
  Dialect,      \* the dialect of the bound connection or transaction
  out,          \* the text returned by the last assembly
  config,       \* s.config: EnableJWT and RequireAuth of the server
  entityAuth,   \* s.entityAuth: the configuration registered for each entity
  request,      \* the request handled last: its user and its method
  response      \* the handler that handled it and what it returned

cursorVars == <<Rows, Index, Recno>>
histVars == <<lastOp, result, err, calls, drvRows, steps, found, arg, dest>>
sqlVars == <<Sql, Params, BatchSize, Macros, MasterSource, master, Dialect, out>>
srvVars == <<config, entityAuth, request, response>>
dsVars == <<Fields, hasTx, hasCtx, cursorVars, histVars, sqlVars>>
vars == <<dsVars, srvVars>>

\* An operation without an argument, and one that is not ToStruct.
NoArg == [k |-> "none"]
NoTarget == [kind |-> "none"]

\* ------------------------------------------------------------------ cursor

Count == Len(Rows)

\* Bof and Eof for cursor c on a row store of n rows.
BofAt(c, n) == n = 0 \/ c.Recno = 1

EofAt_AtLastRow(c, n) == n = 0 \/ c.Recno >= n

EofAt(c, n) == n = 0 \/ c.Recno > n

Cur == [Index |-> Index, Recno |-> Recno]

Bof == BofAt(Cur, Count)

Eof == EofAt(Cur, Count)

FirstPos_AlwaysOne(n) == [Index |-> 0, Recno |-> 1]

\* The cursor after First on a row store of n rows.
FirstPos(n) == [Index |-> 0, Recno |-> IF n > 0 THEN 1 ELSE 0]

\* The cursor after Next from cursor c on a row store of n rows.
NextPos(c, n) ==
  IF ~EofAt(c, n)
  THEN [Index |-> c.Index + 1, Recno |-> c.Recno + 1]
  ELSE c

PreviousPos_Unguarded(c, n) == [Index |-> c.Index - 1, Recno |-> c.Recno - 1]

PreviousPos(c, n) ==
  IF ~BofAt(c, n)
  THEN [Index |-> c.Index - 1, Recno |-> c.Recno - 1]
  ELSE c

LastPos_OffByOne(n) == [Index |-> n, Recno |-> n]

LastPos_PastEnd(n) == [Index |-> n, Recno |-> n + 1]

LastPos(n) == [Index |-> IF n = 0 THEN 0 ELSE n - 1, Recno |-> n]

\* An operation that makes no driver call and cannot fail.
PlainWith(op, a) ==
  /\ lastOp' = op
  /\ arg' = a
  /\ dest' = NoTarget
  /\ result' = "ok"
  /\ err' = "nil"
  /\ calls' = <<>>
  /\ UNCHANGED drvRows

Plain(op) == PlainWith(op, NoArg)

First ==
  /\ Index' = FirstPos(Count).Index
  /\ Recno' = FirstPos(Count).Recno
  /\ steps' = 0
  /\ Plain("First")
  /\ UNCHANGED <<Fields, srvVars, hasTx, hasCtx, Rows, found, sqlVars>>

\* DataSet.Next (the name Next is kept for the next-state relation).
DsNext ==
  /\ Index' = NextPos(Cur, Count).Index
  /\ Recno' = NextPos(Cur, Count).Recno
  /\ steps' = IF steps >= 0 /\ steps <= MaxRows THEN steps + 1 ELSE steps
  /\ Plain("Next")
  /\ UNCHANGED <<Fields, srvVars, hasTx, hasCtx, Rows, found, sqlVars>>

Previous ==
  /\ Index' = PreviousPos(Cur, Count).Index
  /\ Recno' = PreviousPos(Cur, Count).Recno
  /\ steps' = -1
  /\ Plain("Previous")
  /\ UNCHANGED <<Fields, srvVars, hasTx, hasCtx, Rows, found, sqlVars>>

Last ==
  /\ Index' = LastPos(Count).Index
  /\ Recno' = LastPos(Count).Recno
  /\ steps' = -1
  /\ Plain("Last")
  /\ UNCHANGED <<Fields, srvVars, hasTx, hasCtx, Rows, found, sqlVars>>

RECURSIVE LocateFrom_StopsOnLastRow(_, _, _)
LocateFrom_StopsOnLastRow(c, rows, value) ==
  IF EofAt(c, Len(rows))
  THEN [pos |-> LastPos(Len(rows)), found |-> FALSE]
  ELSE IF rows[c.Index + 1] = value
       THEN [pos |-> c, found |-> TRUE]
       ELSE LocateFrom_StopsOnLastRow(NextPos(c, Len(rows)), rows, value)

\* DataSet.Locate, on a row store whose rows stand for the value of field key:
\* the loop from cursor c, comparing the current row with value.
RECURSIVE LocateFrom(_, _, _)
LocateFrom(c, rows, value) ==
  IF EofAt(c, Len(rows))
  THEN [pos |-> c, found |-> FALSE]
  ELSE IF rows[c.Index + 1] = value
       THEN [pos |-> c, found |-> TRUE]
       ELSE LocateFrom(NextPos(c, Len(rows)), rows, value)

Locate ==
  \E value \in RowVals \cup {0} :
    LET r == LocateFrom(FirstPos(Count), Rows, value)
    IN /\ Index' = r.pos.Index
       /\ Recno' = r.pos.Recno
       /\ found' = r.found
       /\ steps' = -1
       /\ PlainWith("Locate", [k |-> "value", v |-> value])
       /\ UNCHANGED <<Fields, srvVars, hasTx, hasCtx, Rows, sqlVars>>

\* DataSet.toStructList: First, then one record per row up to Eof.
RECURSIVE ToEof(_, _)
ToEof(c, n) == IF EofAt(c, n) THEN c ELSE ToEof(NextPos(c, n), n)

\* ---------------------------------------------------------- struct binding

\* What stands for the row read when the cursor is on no row.
NoRow == 0

\* The columns of a row.  A row stands for the value of its column KEY; its
\* column NOTE is null in the rows of key 2 and 10 * key in the others.
\* Without a row every column is null.
Column(row, name) ==
  IF row = NoRow THEN [k |-> "nil"]
  ELSE IF name = "KEY" THEN [k |-> "int", v |-> row]
  ELSE IF row = 2 THEN [k |-> "nil"] ELSE [k |-> "int", v |-> 10 * row]

\* The record type bound onto: an int and a nullable column as int, as *int,
\* as a slice and as a type GetValue has no case for.
StructFields ==
  <<[name |-> "Key", kind |-> "int", column |-> "KEY"],
    [name |-> "Note", kind |-> "int", column |-> "NOTE"],
    [name |-> "Opt", kind |-> "ptr", column |-> "NOTE"],
    [name |-> "Tags", kind |-> "slice", column |-> "NOTE"],
    [name |-> "Raw", kind |-> "other", column |-> "NOTE"]>>

\* reflect.New of the record type: every field zero (nil for pointer, slice
\* and interface).
ZeroRecord ==
  [Key |-> [k |-> "int", v |-> 0], Note |-> [k |-> "int", v |-> 0],
   Opt |-> [k |-> "nil"], Tags |-> [k |-> "nil"], Raw |-> [k |-> "nil"]]

\* A record the caller has filled before the call.
FilledRecord ==
  [Key |-> [k |-> "int", v |-> 9], Note |-> [k |-> "int", v |-> 9],
   Opt |-> [k |-> "int", v |-> 9],
   Tags |-> [k |-> "list", elem |-> "int", v |-> <<[k |-> "int", v |-> 9]>>],
   Raw |-> [k |-> "int", v |-> 9]]

\* Field.AsInt: the integer of the column, 0 for a null column.
AsInt(x) == IF x.k = "int" THEN x ELSE [k |-> "int", v |-> 0]

\* DataSet.GetValue: the value converted to the type of the destination
\* field (a pointer to it for a pointer field), Field.AsValue for a type
\* without a case.
GetValue(x, kind) == IF kind \in {"int", "ptr"} THEN AsInt(x) ELSE x

RECURSIVE bindFrom_NoNullCheck(_, _, _)
bindFrom_NoNullCheck(rec, row, i) ==
  IF i > Len(StructFields) THEN rec
  ELSE LET f == StructFields[i]
           fieldValue == GetValue(Column(row, f.column), f.kind)
           assign == f.kind # "slice" /\ fieldValue.k # "nil"
       IN bindFrom_NoNullCheck(IF assign THEN [rec EXCEPT ![f.name] = fieldValue] ELSE rec,
                               row, i + 1)

\* The loop of toStructUniqResult from field i (1-based) on record rec and
\* the row of key row.
RECURSIVE bindFrom(_, _, _)
bindFrom(rec, row, i) ==
  IF i > Len(StructFields) THEN rec
  ELSE LET f == StructFields[i]
           x == Column(row, f.column)
           fieldValue == GetValue(x, f.kind)
           assign == /\ f.kind # "slice"
                     /\ f.kind = "ptr" => x.k # "nil"
                     /\ fieldValue.k # "nil"
       IN bindFrom(IF assign THEN [rec EXCEPT ![f.name] = fieldValue] ELSE rec, row, i + 1)

toStructUniqResult(rec, row) == bindFrom(rec, row, 1)

\* DataSet.toStructList on a slice of records: First, then a new record
\* bound and appended for every row up to Eof.
toStructList(list, c, rows) ==
  [pos |-> ToEof(FirstPos(Len(rows)), Len(rows)),
   after |-> list \o [i \in 1..Len(rows) |-> toStructUniqResult(ZeroRecord, rows[i])]]

\* The targets handed to ToStruct: nil, a record by value, a pointer to an
\* int, to a record, to a slice of records, to a slice of pointers to
\* records, to a slice of ints.
Targets ==
  {[kind |-> "nil", val |-> [k |-> "nil"]],
   [kind |-> "nonptr", val |-> FilledRecord],
   [kind |-> "other", val |-> [k |-> "int", v |-> 9]],
   [kind |-> "struct", val |-> ZeroRecord],
   [kind |-> "struct", val |-> FilledRecord],
   [kind |-> "slice", val |-> <<>>],
   [kind |-> "slice", val |-> <<FilledRecord>>],
   [kind |-> "sliceptr", val |-> <<>>],
   [kind |-> "sliceint", val |-> <<>>]}

\* ToStruct(model) with the cursor at c on rows: the cursor, the result and
\* the target it leaves.  absent decides a record target without a current
\* row, where the Field accessors either panic or read null columns.
ToStructRun(t, c, rows, absent) ==
  LET n == Len(rows)
      kept(r, e) == [pos |-> c, result |-> r, err |-> e, after |-> t.val]
  IN CASE t.kind = "nil" -> kept("panic", "nil")
       [] t.kind = "nonptr" -> kept("err", "notpointer")
       [] t.kind = "other" -> kept("err", "notstruct")
       [] t.kind = "struct" ->
            IF c.Index + 1 \in 1..n
            THEN [pos |-> c, result |-> "ok", err |-> "nil",
                  after |-> toStructUniqResult(t.val, rows[c.Index + 1])]
            ELSE IF absent = "panic"
                 THEN kept("panic", "nil")
                 ELSE [pos |-> c, result |-> "ok", err |-> "nil",
                       after |-> toStructUniqResult(t.val, NoRow)]
       [] t.kind = "slice" ->
            LET l == toStructList(t.val, c, rows)
            IN [pos |-> l.pos, result |-> "ok", err |-> "nil", after |-> l.after]
       [] OTHER ->
            [pos |-> FirstPos(n), result |-> IF n = 0 THEN "ok" ELSE "panic",
             err |-> "nil", after |-> t.val]

\* DataSet.ToStruct.
ToStruct ==
  \E t \in Targets :
    \E r \in {ToStructRun(t, Cur, Rows, absent) : absent \in {"ok", "panic"}} :
       /\ Index' = r.pos.Index
       /\ Recno' = r.pos.Recno
       /\ steps' = -1
       /\ lastOp' = "ToStruct"
       /\ arg' = NoArg
       /\ dest' = [kind |-> t.kind, before |-> t.val, after |-> r.after]
       /\ result' = r.result
       /\ err' = r.err
       /\ calls' = <<>>
       /\ UNCHANGED <<Fields, srvVars, hasTx, hasCtx, Rows, drvRows, found, sqlVars>>

\* ------------------------------------------------------------------- text

\* s[from:to] of Go, on a text held as a sequence of characters.
Slice(s, from, to) == SubSeq(s, from + 1, to)

\* strings.HasPrefix(s[i:], sub), i counted from 0.
MatchAt(s, i, sub) ==
  /\ i + Len(sub) <= Len(s)
  /\ \A k \in 1..Len(sub) : s[i + k] = sub[k]

\* strings.Index(s, sub): the first offset of sub in s, or -1.
IndexOf(s, sub) ==
  LET hits == {i \in 0..(Len(s) - Len(sub)) : MatchAt(s, i, sub)}
  IN IF hits = {} THEN -1 ELSE CHOOSE i \in hits : \A j \in hits : i <= j

\* strings.ReplaceAll(s, old, new) for a non-empty old.
RECURSIVE ReplaceAll(_, _, _)
ReplaceAll(s, old, new) ==
  LET i == IndexOf(s, old)
  IN IF i = -1
     THEN s
     ELSE Slice(s, 0, i) \o new \o ReplaceAll(Slice(s, i + Len(old), Len(s)), old, new)

Digits == <<"0", "1", "2", "3", "4", "5", "6", "7", "8", "9">>

\* fmt.Sprintf("%d", n) for n >= 0.
RECURSIVE Itoa(_)
Itoa(n) ==
  IF n < 10 THEN <<Digits[n + 1]>> ELSE Itoa(n \div 10) \o <<Digits[(n % 10) + 1]>>

\* fmt.Sprintf("%04d", n) for n >= 0.
Pad4(n) ==
  LET d == Itoa(n)
  IN IF Len(d) >= 4 THEN d ELSE [k \in 1..(4 - Len(d)) |-> "0"] \o d

\* Values held by a Variant: [k |-> "nil"], [k |-> "int", v |-> n],
\* [k |-> "str", v |-> text], and a slice [k |-> "list", elem |-> t, v |-> seq]
\* whose static element type t is "int", "string" or "any" (interface).
IntV(n) == [k |-> "int", v |-> n]
StrV(t) == [k |-> "str", v |-> t]
NilV == [k |-> "nil"]
ListV(t, vs) == [k |-> "list", elem |-> t, v |-> vs]

\* fmt.Sprintf("%v", x) of a scalar.
FmtV(x) ==
  CASE x.k = "int" -> Itoa(x.v)
    [] x.k = "str" -> x.v
    [] OTHER -> <<"<", "n", "i", "l", ">">>

\* Variant.AsString of a scalar.
AsString(x) ==
  CASE x.k = "int" -> Itoa(x.v)
    [] x.k = "str" -> x.v
    [] OTHER -> <<>>

\* strings.Join(parts, sep).
RECURSIVE Join(_, _)
Join(parts, sep) ==
  IF Len(parts) = 0 THEN <<>>
  ELSE IF Len(parts) = 1 THEN parts[1]
  ELSE parts[1] \o sep \o Join(Tail(parts), sep)

\* JoinSlice: an element is quoted when the element type of the slice is of
\* kind String (valueOf.Index(i).Type().Kind()); the elements of a slice of
\* interface values are of kind Interface.
JoinSlice(list) ==
  Join([i \in 1..Len(list.v) |->
          IF list.elem = "string"
          THEN <<"'">> \o FmtV(list.v[i]) \o <<"'">>
          ELSE FmtV(list.v[i])],
       <<",", " ">>)

\* ------------------------------------------------- placeholder translation

Delimiters == {" ", ",", "(", ")", "=", "|", "[", "]"}

replaceParamPG_AnyFollower(sql, param, paramNumber) ==
  ReplaceAll(sql, param, <<"$">> \o Itoa(paramNumber))

\* A translation that rewrites the first occurrence and copies the rest.
replaceParamPG_FirstOnly(sql, param, paramNumber) ==
  LET pSize == Len(param)
      i == IndexOf(sql, param)
  IN IF i = -1
     THEN sql
     ELSE LET ok == IF i = Len(sql) - pSize
                    THEN TRUE
                    ELSE sql[i + pSize + 1] \in Delimiters
              start == Slice(sql, 0, i)
              end == Slice(sql, i + pSize, Len(sql))
          IN IF ok
             THEN start \o <<"$">> \o Itoa(paramNumber) \o end
             ELSE start \o param \o end

RECURSIVE replaceParamPG(_, _, _)
replaceParamPG(sql, param, paramNumber) ==
  LET pSize == Len(param)
      i == IndexOf(sql, param)
  IN IF i = -1
     THEN sql
     ELSE LET ok == IF i = Len(sql) - pSize
                    THEN TRUE
                    ELSE sql[i + pSize + 1] \in Delimiters
              start == Slice(sql, 0, i)
              end == replaceParamPG(Slice(sql, i + pSize, Len(sql)), param, paramNumber)
          IN IF ok
             THEN start \o <<"$">> \o Itoa(paramNumber) \o end
             ELSE start \o param \o end

ParamNumber_ZeroBased(i) == i

\* The number given to the parameter at 0-based position i of the list.
ParamNumber(i) == i + 1

\* The loop of replaceAllParam from 0-based position i.
RECURSIVE replaceFrom(_, _, _)
replaceFrom(sql, params, i) ==
  IF i >= Len(params)
  THEN sql
  ELSE replaceFrom(replaceParamPG(sql, <<":">> \o params[i + 1].Name, ParamNumber(i)),
                   params, i + 1)

replaceAllParam_EveryDialect(sql, params, dialect) == replaceFrom(sql, params, 0)

\* DataSet.replaceAllParam: only the POSTGRESQL case of the switch rewrites.
replaceAllParam(sql, params, dialect) ==
  IF dialect = "POSTGRESQL" THEN replaceFrom(sql, params, 0) ELSE sql

\* ---------------------------------------------------------------- assembly

\* The loop over the macros of GetSql from 0-based position i.
RECURSIVE applyMacros(_, _, _)
applyMacros(sql, macros, i) ==
  IF i >= Len(macros)
  THEN sql
  ELSE LET key == macros[i + 1].Name
           value == macros[i + 1].Value
       IN applyMacros(
            IF value.k = "list"
            THEN ReplaceAll(sql, <<"&">> \o key, JoinSlice(value))
            ELSE ReplaceAll(sql, <<"&">> \o key, AsString(value)),
            macros, i + 1)

\* "\r" to "\n", then "\n" to "\n ".
Normalize(sql) == ReplaceAll(ReplaceAll(sql, <<"\r">>, <<"\n">>), <<"\n">>, <<"\n", " ">>)

\* An assembly that puts the statement into a sub-select.
GetSql_Wrapped(sql, macros, params, dialect) ==
  replaceAllParam(
    Normalize(<<"s", "e", "l", "e", "c", "t", " ", "*", " ", "f", "r", "o", "m", " ", "(">>
                \o applyMacros(sql, macros, 0) \o <<")", " ", "t">>),
    params, dialect)

\* DataSet.GetSql: macros, line breaks, placeholder translation.
GetSql(sql, macros, params, dialect) ==
  replaceAllParam(Normalize(applyMacros(sql, macros, 0)), params, dialect)

\* ----------------------------------------------------------- master-detail

T_SelectFrom == <<"s", "e", "l", "e", "c", "t", " ", "*", " ", "f", "r", "o", "m", " ", "(">>
T_TWhere == <<")", " ", "t", " ", "w", "h", "e", "r", "e", " ">>
T_EqColon == <<" ", "=", " ", ":">>
T_And == <<" ", "a", "n", "d", " ">>

NewMasterSource == [DataSource |-> FALSE, MasterFields |-> <<>>, DetailFields |-> <<>>]

\* Params.SetInputParam: the parameter of that name gets the value and the
\* direction IN; a name not yet in the list is appended.
SetInputParam(params, name, value) ==
  IF \E i \in 1..Len(params) : params[i].Name = name
  THEN [i \in 1..Len(params) |->
          IF params[i].Name = name
          THEN [params[i] EXCEPT !.Value = value, !.ParamType = "IN"]
          ELSE params[i]]
  ELSE Append(params, [Name |-> name, Value |-> value, Values |-> <<>>, ParamType |-> "IN"])

\* DataSource.FieldByName(name).AsValue(): the value of the field in the
\* current row of the master (nil without a current row).
FieldValue(m, name) ==
  IF m.Index + 1 \in 1..Len(m.Rows) /\ name \in DOMAIN m.Rows[m.Index + 1]
  THEN m.Rows[m.Index + 1][name]
  ELSE NilV

\* The bind alias of the condition at 0-based position i.
Alias(ms, i) == ms.MasterFields[i + 1] \o Pad4(i)

\* A loop that binds an alias only when it is not registered yet.
RECURSIVE whereLoop_KeepsRegistered(_, _, _, _, _)
whereLoop_KeepsRegistered(ms, m, i, where, params) ==
  IF i >= Len(ms.MasterFields)
  THEN [where |-> where, params |-> params, panic |-> FALSE]
  ELSE IF i >= Len(ms.DetailFields)
       THEN [where |-> where, params |-> params, panic |-> TRUE]
       ELSE LET alias == Alias(ms, i)
                cond == ms.DetailFields[i + 1] \o T_EqColon \o alias
                w == IF i = Len(ms.MasterFields) - 1
                     THEN where \o cond
                     ELSE where \o cond \o T_And
            IN whereLoop_KeepsRegistered(ms, m, i + 1, w,
                 IF \E p \in 1..Len(params) : params[p].Name = alias
                 THEN params
                 ELSE SetInputParam(params, alias, FieldValue(m, ms.MasterFields[i + 1])))

\* The loop of GetSqlMasterDetail from position i: the where clause built so
\* far and the parameters registered so far; panic when DetailFields[i] is
\* read past the end of DetailFields.
RECURSIVE whereLoop(_, _, _, _, _)
whereLoop(ms, m, i, where, params) ==
  IF i >= Len(ms.MasterFields)
  THEN [where |-> where, params |-> params, panic |-> FALSE]
  ELSE IF i >= Len(ms.DetailFields)
       THEN [where |-> where, params |-> params, panic |-> TRUE]
       ELSE LET alias == Alias(ms, i)
                cond == ms.DetailFields[i + 1] \o T_EqColon \o alias
                w == IF i = Len(ms.MasterFields) - 1
                     THEN where \o cond
                     ELSE where \o cond \o T_And
            IN whereLoop(ms, m, i + 1, w,
                         SetInputParam(params, alias, FieldValue(m, ms.MasterFields[i + 1])))

GetSqlMasterDetail_WrapUntranslated(sql, macros, params, ms, m, dialect) ==
  LET vsql == GetSql(sql, macros, params, dialect)
      loop == IF ms.DataSource /\ (Len(ms.MasterFields) # 0 \/ Len(ms.DetailFields) # 0)
              THEN whereLoop(ms, m, 0, <<>>, params)
              ELSE [where |-> <<>>, params |-> params, panic |-> FALSE]
      wrapped == IF loop.where # <<>>
                 THEN T_SelectFrom \o vsql \o T_TWhere \o loop.where
                 ELSE vsql
  IN [sql |-> Normalize(wrapped), params |-> loop.params, master |-> m,
      panic |-> loop.panic]

\* An assembly that looks the master's values up from its first row and
\* leaves the master there.
GetSqlMasterDetail_MovesMaster(sql, macros, params, ms, m, dialect) ==
  LET first == [m EXCEPT !.Index = 0, !.Recno = IF Len(m.Rows) = 0 THEN 0 ELSE 1]
      vsql == GetSql(sql, macros, params, dialect)
      loop == IF ms.DataSource /\ (Len(ms.MasterFields) # 0 \/ Len(ms.DetailFields) # 0)
              THEN whereLoop(ms, first, 0, <<>>, params)
              ELSE [where |-> <<>>, params |-> params, panic |-> FALSE]
      wrapped == IF loop.where # <<>>
                 THEN T_SelectFrom \o vsql \o T_TWhere \o loop.where
                 ELSE vsql
  IN [sql |-> replaceAllParam(Normalize(wrapped), loop.params, dialect),
      params |-> loop.params,
      master |-> IF ms.DataSource THEN first ELSE m,
      panic |-> loop.panic]

\* GetSqlMasterDetail: the text returned, the parameter list and the master
\* it leaves, and whether it panicked instead of returning.
GetSqlMasterDetail(sql, macros, params, ms, m, dialect) ==
  LET vsql == GetSql(sql, macros, params, dialect)
      loop == IF ms.DataSource /\ (Len(ms.MasterFields) # 0 \/ Len(ms.DetailFields) # 0)
              THEN whereLoop(ms, m, 0, <<>>, params)
              ELSE [where |-> <<>>, params |-> params, panic |-> FALSE]
      wrapped == IF loop.where # <<>>
                 THEN T_SelectFrom \o vsql \o T_TWhere \o loop.where
                 ELSE vsql
  IN [sql |-> replaceAllParam(Normalize(wrapped), loop.params, dialect),
      params |-> loop.params,
      master |-> m,
      panic |-> loop.panic]

\* ----------------------------------------------------------------- driver

\* One call to the driver: what is called, on which handle, with which context
\* ("none": the call without context, "ds": ds.Ctx, "arg": the argument).
\* and res how it ended ("ok" or "fail").
Call(op, on, ctx, res) == [op |-> op, on |-> on, ctx |-> ctx, res |-> res]

CountOp(cs, op) == Cardinality({i \in 1..Len(cs) : cs[i].op = op})

\* A query part that reconnects and queries a second time when the retry fails.
RunQuery_RetriesAgain(txOn, qctx, pctx, q1, pg, rc, q2) ==
  IF hasTx \/ q1 = "ok"
  THEN [calls |-> <<Call("Query", IF hasTx THEN txOn ELSE "conn", qctx, q1)>>,
        err |-> IF q1 = "fail" THEN "q1" ELSE "nil"]
  ELSE [calls |-> <<Call("Query", "conn", qctx, q1), Call("Ping", "conn", pctx, pg),
                    Call("ConnOpen", "conn", "none", rc), Call("Query", "conn", qctx, q2),
                    Call("ConnOpen", "conn", "none", rc), Call("Query", "conn", qctx, q2)>>,
        err |-> IF q2 = "fail" THEN "q2" ELSE "nil"]

\* The query part of Open and OpenContext: the driver calls made and the error
\* returned ("nil": a result cursor was obtained).  txOn is the handle the
\* query goes to when a transaction is bound, qctx and pctx the contexts of
\* the query and of the ping; q1, pg, rc, q2 are the outcomes of the query,
\* the ping, the reconnect and the retried query.
RunQuery(txOn, qctx, pctx, q1, pg, rc, q2) ==
  IF hasTx
  THEN [calls |-> <<Call("Query", txOn, qctx, q1)>>,
        err |-> IF q1 = "fail" THEN "q1" ELSE "nil"]
  ELSE IF q1 = "ok"
       THEN [calls |-> <<Call("Query", "conn", qctx, q1)>>, err |-> "nil"]
       ELSE IF pg = "ok"
            THEN [calls |-> <<Call("Query", "conn", qctx, q1), Call("Ping", "conn", pctx, pg)>>,
                  err |-> "wrapped q1"]
            ELSE IF rc = "fail"
                 THEN [calls |-> <<Call("Query", "conn", qctx, q1),
                                   Call("Ping", "conn", pctx, pg),
                                   Call("ConnOpen", "conn", "none", rc)>>,
                       err |-> "q1"]
                 ELSE [calls |-> <<Call("Query", "conn", qctx, q1),
                                   Call("Ping", "conn", pctx, pg),
                                   Call("ConnOpen", "conn", "none", rc),
                                   Call("Query", "conn", qctx, q2)>>,
                       err |-> IF q2 = "fail" THEN "q2" ELSE "nil"]

OpenStart_KeepsRows == [Rows |-> Rows, Index |-> 0, Recno |-> 0]

\* The first statements of Open and OpenContext.
OpenStart == [Rows |-> <<>>, Index |-> 0, Recno |-> 0]

\* The columns of the driver's result.
DriverColumns == <<"KEY", "NOTE">>

\* The scan kinds the driver reports for its columns.
DriverKinds == <<"int64", "int64">>

\* Fields.Add(name) on a list of n fields: a field without a kind.
NewField(name, n) == [Name |-> name, Kind |-> "unset", Order |-> n + 1, Index |-> n]

\* The switch of scan over ScanType().Kind(): the kind the field gets, old
\* being the kind it has ("time" stands for the struct time.Time).
FieldKind(kind, old) ==
  CASE kind = "string" -> "Text"
    [] kind \in {"int", "int8", "int16", "int32", "int64"} -> "Integer"
    [] kind \in {"float32", "float64"} -> "Float"
    [] kind = "time" -> "DateTime"
    [] kind = "bool" -> "Boolean"
    [] OTHER -> old

\* DataSet.scan, the fields: an empty field list gets one field per column of
\* the result; in a list that has fields every field gets the kind, order
\* and index of the column at its position, and the loop panics when it
\* reads the type of a column the result does not have.
scanFields(fields, kinds) ==
  IF Len(fields) = 0
  THEN [fields |-> [i \in 1..Len(DriverColumns) |->
                      [Name |-> DriverColumns[i],
                       Kind |-> FieldKind(kinds[i], "unset"),
                       Order |-> i,
                       Index |-> i - 1]],
        panic |-> FALSE]
  ELSE [fields |-> [i \in 1..Len(fields) |->
                      IF i <= Len(kinds)
                      THEN [Name |-> fields[i].Name,
                            Kind |-> FieldKind(kinds[i], fields[i].Kind),
                            Order |-> i,
                            Index |-> i - 1]
                      ELSE fields[i]],
        panic |-> Len(fields) > Len(kinds)]

\* DataSet.scan: every row of the driver cursor is appended to the row store.
scan(rows, list) == rows \o list

\* An operation that panicked before it made a driver call.
Panicked(op) ==
  /\ lastOp' = op
  /\ arg' = NoArg
  /\ dest' = NoTarget
  /\ result' = "panic"
  /\ err' = "nil"
  /\ calls' = <<>>

\* Open and OpenContext after the assembly: the query, then scan, First and
\* the deferred rows.Close on success; the reset state and the error otherwise.
\* kinds are the scan kinds of the columns of the result.
OpenedWith(op, asm, run, list, kinds) ==
  /\ Params' = asm.params
  /\ Fields' = IF ~asm.panic /\ run.err = "nil" THEN scanFields(Fields, kinds).fields ELSE Fields
  /\ IF asm.panic
     THEN /\ Rows' = OpenStart.Rows
          /\ Index' = OpenStart.Index
          /\ Recno' = OpenStart.Recno
          /\ drvRows' = <<>>
          /\ steps' = -1
          /\ out' = out
          /\ Panicked(op)
     ELSE IF run.err = "nil" /\ scanFields(Fields, kinds).panic
     THEN /\ Rows' = OpenStart.Rows
          /\ Index' = OpenStart.Index
          /\ Recno' = OpenStart.Recno
          /\ drvRows' = <<>>
          /\ steps' = -1
          /\ out' = asm.sql
          /\ lastOp' = op
          /\ arg' = [k |-> "kinds", v |-> kinds]
          /\ dest' = NoTarget
          /\ result' = "panic"
          /\ err' = "nil"
          /\ calls' = Append(run.calls, Call("RowsClose", "rows", "none", "ok"))
     ELSE IF run.err = "nil"
     THEN LET rs == scan(OpenStart.Rows, list)
          IN /\ Rows' = rs
             /\ Index' = FirstPos(Len(rs)).Index
             /\ Recno' = FirstPos(Len(rs)).Recno
             /\ drvRows' = list
             /\ steps' = 0
             /\ out' = asm.sql
             /\ lastOp' = op
             /\ arg' = [k |-> "kinds", v |-> kinds]
             /\ dest' = NoTarget
             /\ result' = "ok"
             /\ err' = "nil"
             /\ calls' = Append(run.calls, Call("RowsClose", "rows", "none", "ok"))
     ELSE /\ Rows' = OpenStart.Rows
          /\ Index' = OpenStart.Index
          /\ Recno' = OpenStart.Recno
          /\ drvRows' = <<>>
          /\ steps' = -1
          /\ out' = asm.sql
          /\ lastOp' = op
          /\ arg' = NoArg
          /\ dest' = NoTarget
          /\ result' = "err"
          /\ err' = run.err
          /\ calls' = run.calls

\* Open and OpenContext on a result whose columns have the kinds DriverKinds.
Opened(op, asm, run, list) == OpenedWith(op, asm, run, list, DriverKinds)

\* The runs of the query part over every outcome of the driver.
Runs(txOn, qctx, pctx) ==
  {RunQuery(txOn, qctx, pctx, q1, pg, rc, q2) :
     q1 \in Outcomes, pg \in Outcomes, rc \in Outcomes, q2 \in Outcomes}

\* The rows a run can hand to scan: any result of the driver when a cursor
\* was obtained.
Results(asm, run) == IF run.err = "nil" /\ ~asm.panic THEN RowSets ELSE {<<>>}

Open ==
  LET c == IF hasCtx THEN "ds" ELSE "none"
  IN \E asm \in {GetSqlMasterDetail(Sql, Macros, Params, MasterSource, master, Dialect)} :
     \E run \in Runs("tx", c, "none") :
       \E list \in Results(asm, run) :
         /\ Opened("Open", asm, run, list)
         /\ master' = asm.master
         /\ UNCHANGED <<srvVars, hasTx, hasCtx, found, Sql, BatchSize, Macros, MasterSource, Dialect>>

OpenContext ==
  \E asm \in {GetSqlMasterDetail(Sql, Macros, Params, MasterSource, master, Dialect)} :
     \E run \in Runs("conn", "arg", "arg") :
       \E list \in Results(asm, run) :
         /\ Opened("OpenContext", asm, run, list)
         /\ master' = asm.master
         /\ UNCHANGED <<srvVars, hasTx, hasCtx, found, Sql, BatchSize, Macros, MasterSource, Dialect>>

\* What Close and CloseNoClearSQL share.
Closed(op) ==
  /\ Index' = 0
  /\ Recno' = 0
  /\ Rows' = <<>>
  /\ Fields' = <<>>
  /\ Params' = <<>>
  /\ BatchSize' = 0
  /\ Macros' = <<>>
  /\ MasterSource' = NewMasterSource
  /\ steps' = -1
  /\ Plain(op)
  /\ UNCHANGED <<srvVars, hasTx, hasCtx, found, master, Dialect, out>>

Close_KeepsSql ==
  /\ Sql' = Sql
  /\ Closed("Close")

Close ==
  /\ Sql' = <<>>
  /\ Closed("Close")

CloseNoClearSQL ==
  /\ Sql' = Sql
  /\ Closed("CloseNoClearSQL")

AddContext ==
  \E c \in BOOLEAN :
    /\ hasCtx' = c
    /\ Plain("AddContext")
    /\ UNCHANGED <<Fields, srvVars, hasTx, cursorVars, steps, found, sqlVars>>

\* What Exec, ExecContext and ExecBatch leave alone.
ExecFrame == UNCHANGED <<Fields, srvVars, hasTx, hasCtx, cursorVars, drvRows, steps, found,
                         Sql, Params, BatchSize, Macros, MasterSource, master, Dialect>>

Exec ==
  \E sql \in {GetSql(Sql, Macros, Params, Dialect)}, e \in Outcomes :
    LET c == IF hasCtx THEN "ds" ELSE "none"
        on == IF hasTx THEN "tx" ELSE "conn"
    IN /\ out' = sql
       /\ lastOp' = "Exec"
       /\ arg' = NoArg
       /\ dest' = NoTarget
       /\ calls' = <<Call("Exec", on, c, e)>>
       /\ result' = IF e = "ok" THEN "ok" ELSE "err"
       /\ err' = IF e = "ok" THEN "nil" ELSE "exec"
       /\ ExecFrame

ExecContext ==
  \E sql \in {GetSql(Sql, Macros, Params, Dialect)}, p \in Outcomes, e \in Outcomes :
    LET on == IF hasTx THEN "tx" ELSE "conn"
    IN /\ out' = sql
       /\ lastOp' = "ExecContext"
       /\ arg' = NoArg
       /\ dest' = NoTarget
       /\ calls' = IF p = "fail"
                   THEN <<Call("Prepare", on, "arg", p)>>
                   ELSE <<Call("Prepare", on, "arg", p), Call("StmtExec", "stmt", "arg", e),
                          Call("StmtClose", "stmt", "none", "ok")>>
       /\ result' = IF p = "ok" /\ e = "ok" THEN "ok" ELSE "err"
       /\ err' = IF p = "fail" THEN "prepare" ELSE IF e = "fail" THEN "exec" ELSE "nil"
       /\ ExecFrame

\* DataSet.ExecContext of godata.go: on a transaction the prepared statement
\* is executed with stmt.Exec, on a connection with stmt.ExecContext.
ExecContextRoot ==
  \E sql \in {GetSql(Sql, Macros, Params, Dialect)}, p \in Outcomes, e \in Outcomes :
    LET on == IF hasTx THEN "tx" ELSE "conn"
        ectx == IF hasTx THEN "none" ELSE "arg"
    IN /\ out' = sql
       /\ lastOp' = "ExecContext"
       /\ arg' = NoArg
       /\ dest' = NoTarget
       /\ calls' = IF p = "fail"
                   THEN <<Call("Prepare", on, "arg", p)>>
                   ELSE <<Call("Prepare", on, "arg", p), Call("StmtExec", "stmt", ectx, e),
                          Call("StmtClose", "stmt", "none", "ok")>>
       /\ result' = IF p = "ok" /\ e = "ok" THEN "ok" ELSE "err"
       /\ err' = IF p = "fail" THEN "prepare" ELSE IF e = "fail" THEN "exec" ELSE "nil"
       /\ ExecFrame

\* GetParamsBatch(index): the values bound for one execution; it panics when
\* some parameter has no value at index (Values[index] out of range).
GetParamsBatch(params, index) ==
  IF \E i \in 1..Len(params) : Len(params[i].Values) <= index
  THEN [panic |-> TRUE, args |-> <<>>]
  ELSE [panic |-> FALSE, args |-> [i \in 1..Len(params) |-> params[i].Values[index + 1]]]

RECURSIVE batchLoop_KeepsGoing(_, _, _, _, _, _)
batchLoop_KeepsGoing(params, n, i, failAt, c, done) ==
  IF i >= n
  THEN [calls |-> done, result |-> IF failAt < n THEN "err" ELSE "ok"]
  ELSE LET b == GetParamsBatch(params, i)
       IN IF b.panic
          THEN [calls |-> done, result |-> "panic"]
          ELSE batchLoop_KeepsGoing(params, n, i + 1, failAt, c,
                 Append(done, [op |-> "StmtExec", on |-> "stmt", ctx |-> c,
                               res |-> IF i = failAt THEN "fail" ELSE "ok",
                               idx |-> i, args |-> b.args]))

\* The execution loop of ExecBatch from index i over n iterations: the calls
\* made (after those of done) and how the loop ended.  failAt is the index
\* whose execution the driver fails.
RECURSIVE batchLoop(_, _, _, _, _, _)
batchLoop(params, n, i, failAt, c, done) ==
  IF i >= n
  THEN [calls |-> done, result |-> "ok"]
  ELSE LET b == GetParamsBatch(params, i)
       IN IF b.panic
          THEN [calls |-> done, result |-> "panic"]
          ELSE LET cs == Append(done, [op |-> "StmtExec", on |-> "stmt", ctx |-> c,
                                        res |-> IF i = failAt THEN "fail" ELSE "ok",
                                        idx |-> i, args |-> b.args])
               IN IF i = failAt
                  THEN [calls |-> cs, result |-> "err"]
                  ELSE batchLoop(params, n, i + 1, failAt, c, cs)

\* ExecBatch(size).  The deferred stmt.Close is registered before the error of
\* Prepare is looked at, so it runs on the nil statement of a failed Prepare.
ExecBatch ==
  \E sql \in {GetSql(Sql, Macros, Params, Dialect)},
     size \in 0..MaxBatch, p \in Outcomes, failAt \in 0..MaxBatch :
    LET c == IF hasCtx THEN "ds" ELSE "none"
        on == IF hasTx THEN "tx" ELSE "conn"
        loop == batchLoop(Params, BatchSize, 0, failAt, c, <<Call("Prepare", on, c, p)>>)
    IN /\ out' = sql
       /\ lastOp' = "ExecBatch"
       /\ arg' = [k |-> "size", v |-> size]
       /\ dest' = NoTarget
       /\ IF p = "fail"
          THEN /\ calls' = <<Call("Prepare", on, c, p), Call("StmtClose", "nil", "none", "panic")>>
               /\ result' = "panic"
               /\ err' = "nil"
          ELSE /\ calls' = Append(loop.calls, Call("StmtClose", "stmt", "none", "ok"))
               /\ result' = loop.result
               /\ err' = IF loop.result = "err" THEN "exec" ELSE "nil"
       /\ ExecFrame

\* ------------------------------------------------------- the OData server

Entities == {"Orders", "Items"}
Methods == {"GET", "POST"}

\* The request context: the user the JWT middleware stored in it (present
\* is FALSE when GetCurrentUser returns nil) and the method of the request.
NoUser == [present |-> FALSE, Admin |-> FALSE, Roles |-> {}, Scopes |-> {}]
Users ==
  {NoUser} \cup [present : {TRUE}, Admin : BOOLEAN,
                 Roles : SUBSET {"editor"}, Scopes : SUBSET {"write"}]
Requests == [user : Users, method : Methods]
NoRequest == [user |-> NoUser, method |-> ""]

GetCurrentUser(c) == c.user
IsAdmin(user) == user.Admin
HasAnyRole(user, roles) == \E i \in 1..Len(roles) : roles[i] \in user.Roles
HasAnyScope(user, scopes) == \E i \in 1..Len(scopes) : scopes[i] \in user.Scopes

\* The global RequireAuth() middleware: 401 without a user, else the next
\* handler.
RequireAuth(c) == IF ~GetCurrentUser(c).present THEN "401" ELSE "next"

\* EntityAuthConfig, and its zero value.
AuthConfigs ==
  [RequireAuth : BOOLEAN, RequireAdmin : BOOLEAN,
   RequiredRoles : {<<>>, <<"editor">>, <<"viewer", "editor">>},
   RequiredScopes : {<<>>, <<"write">>}, ReadOnly : BOOLEAN]
ZeroConfig ==
  [RequireAuth |-> FALSE, RequireAdmin |-> FALSE, RequiredRoles |-> <<>>,
   RequiredScopes |-> <<>>, ReadOnly |-> FALSE]

\* GetEntityAuth: the map lookup, under the read lock.
GetEntityAuth(entityName) ==
  IF entityName \in DOMAIN entityAuth
  THEN [config |-> entityAuth[entityName], exists |-> TRUE]
  ELSE [config |-> ZeroConfig, exists |-> FALSE]

\* The handler RequireEntityAuth returns, without the scope check.
RequireEntityAuthHandler_NoScopes(entityName, c) ==
  IF ~config.EnableJWT THEN "next"
  ELSE
    LET got == GetEntityAuth(entityName)
        authConfig == got.config
        user == GetCurrentUser(c)
    IN IF ~got.exists
       THEN IF config.RequireAuth THEN RequireAuth(c) ELSE "next"
       ELSE IF ~authConfig.RequireAuth THEN "next"
       ELSE IF ~user.present THEN "401"
       ELSE IF authConfig.RequireAdmin /\ ~IsAdmin(user) THEN "403"
       ELSE IF Len(authConfig.RequiredRoles) > 0
               /\ ~HasAnyRole(user, authConfig.RequiredRoles) THEN "403"
       ELSE "next"

\* The handler RequireEntityAuth returns: what it answers to the request c.
RequireEntityAuthHandler(entityName, c) ==
  IF ~config.EnableJWT THEN "next"
  ELSE
    LET got == GetEntityAuth(entityName)
        authConfig == got.config
        user == GetCurrentUser(c)
    IN IF ~got.exists
       THEN IF config.RequireAuth THEN RequireAuth(c) ELSE "next"
       ELSE IF ~authConfig.RequireAuth THEN "next"
       ELSE IF ~user.present THEN "401"
       ELSE IF authConfig.RequireAdmin /\ ~IsAdmin(user) THEN "403"
       ELSE IF Len(authConfig.RequiredRoles) > 0
               /\ ~HasAnyRole(user, authConfig.RequiredRoles) THEN "403"
       ELSE IF Len(authConfig.RequiredScopes) > 0
               /\ ~HasAnyScope(user, authConfig.RequiredScopes) THEN "403"
       ELSE "next"

\* The handler CheckEntityReadOnly returns: entityName and method are the
\* arguments it was built with, c is the request.
CheckEntityReadOnlyHandler(entityName, method, c) ==
  LET got == GetEntityAuth(entityName)
  IN IF ~got.exists THEN "next"
     ELSE IF got.config.ReadOnly /\ method # "GET" THEN "403"
     ELSE "next"

NoResponse == [handler |-> "none", entityName |-> "", method |-> "", status |-> "none"]

\* NewServer, before any entity configuration is registered.
NoServer ==
  /\ config = [EnableJWT |-> FALSE, RequireAuth |-> FALSE]
  /\ entityAuth = [e \in {} |-> ZeroConfig]
  /\ request = NoRequest
  /\ response = NoResponse

\* The configurations registered: any for Orders, the read-only one for Items.
Registrations ==
  ({"Orders"} \X AuthConfigs) \cup ({"Items"} \X {[ZeroConfig EXCEPT !.ReadOnly = TRUE]})

SetEntityAuth ==
  \E r \in Registrations :
    /\ entityAuth' = [e \in DOMAIN entityAuth \cup {r[1]} |->
                        IF e = r[1] THEN r[2] ELSE entityAuth[e]]
    /\ UNCHANGED <<dsVars, config, request, response>>

\* A request reaches the handler built by RequireEntityAuth(entityName).
RequireEntityAuth ==
  \E entityName \in Entities, c \in Requests :
    /\ request' = c
    /\ response' = [handler |-> "RequireEntityAuth", entityName |-> entityName,
                    method |-> "",
                    status |-> RequireEntityAuthHandler(entityName, c)]
    /\ UNCHANGED <<dsVars, config, entityAuth>>

\* A request reaches the handler built by CheckEntityReadOnly(entityName,
\* method).
CheckEntityReadOnly ==
  \E entityName \in Entities, method \in Methods, c \in Requests :
    /\ request' = c
    /\ response' = [handler |-> "CheckEntityReadOnly", entityName |-> entityName,
                    method |-> method,
                    status |-> CheckEntityReadOnlyHandler(entityName, method, c)]
    /\ UNCHANGED <<dsVars, config, entityAuth>>

\* ------------------------------------------------------- the specifications

T_SelectT == <<"s", "e", "l", "e", "c", "t", " ", "*", " ", "f", "r", "o", "m", " ", "t">>

NoMaster == [Rows |-> <<>>, Index |-> 0, Recno |-> 0, Params |-> <<>>, Sql |-> <<>>]

\* NewDataSet / NewDataSetTx, before any SQL, parameter or macro is given.
Fresh ==
  /\ hasCtx = FALSE
  /\ Rows = <<>>
  /\ Fields = <<>>
  /\ arg = NoArg
  /\ dest = NoTarget
  /\ Index = 0
  /\ Recno = 0
  /\ lastOp = "New"
  /\ result = "none"
  /\ err = "nil"
  /\ calls = <<>>
  /\ drvRows = <<>>
  /\ steps = -1
  /\ found = FALSE
  /\ out = <<>>

\* The cursor and the query: a DataSet on a connection or on a transaction,
\* with one statement and no master.
Init ==
  /\ Fresh
  /\ NoServer
  /\ hasTx \in BOOLEAN
  /\ Sql = T_SelectT
  /\ Params = <<>>
  /\ BatchSize = 0
  /\ Macros = <<>>
  /\ MasterSource = NewMasterSource
  /\ master = NoMaster
  /\ Dialect = "ORACLE"

Next ==
  \/ Open
  \/ OpenContext
  \/ Close
  \/ CloseNoClearSQL
  \/ First
  \/ DsNext
  \/ Previous
  \/ Last
  \/ Locate
  \/ ToStruct
  \/ AddContext

Spec == Init /\ [][Next]_vars

\* A parameter with a scalar value and n values for batch execution.
BatchParam(name, base, n) ==
  [Name |-> name, Value |-> IntV(base), Values |-> [j \in 1..n |-> IntV(base + j)],
   ParamType |-> "IN"]

\* Parameter lists for batch execution: no, one or two parameters, each with
\* any number of batch values up to MaxBatch.
BatchParamLists ==
  {<<>>}
    \cup {<<BatchParam(<<"a">>, 10, n)>> : n \in 0..MaxBatch}
    \cup {<<BatchParam(<<"a">>, 10, n), BatchParam(<<"b">>, 20, m)>> :
            n \in 0..MaxBatch, m \in 0..MaxBatch}

T_Statement == <<"x", " ", "=", " ", ":", "a", ",", " ", "y", " ", "=", " ", ":", "b">>

Dialects == {"ORACLE", "POSTGRESQL"}

\* Statement execution: a DataSet on a connection or on a transaction with a
\* statement, a parameter list and a batch size.
InitExec ==
  /\ Fresh
  /\ NoServer
  /\ hasTx \in BOOLEAN
  /\ Sql = T_Statement
  /\ Params \in BatchParamLists
  /\ BatchSize \in 0..MaxBatch
  /\ Macros = <<>>
  /\ MasterSource = NewMasterSource
  /\ master = NoMaster
  /\ Dialect \in Dialects

NextExec ==
  \/ Exec
  \/ ExecContext
  \/ ExecContextRoot
  \/ ExecBatch
  \/ AddContext

SpecExec == InitExec /\ [][NextExec]_vars

\* Texts of at most MaxLen characters over a small alphabet.
MaxLen == 5

TextChars == {":", "a", "b", " "}

\* Characters that may follow a token: every delimiter of replaceParamPG and
\* characters that are none.
FollowChars == {" ", ",", "(", ")", "=", "|", "[", "]", ";", ".", "+", "_", "1", ":", "\n", "x"}

Ex_TwoParams ==
  <<"x", " ", "=", " ", ":", "a", " ", "a", "n", "d", " ", "y", " ", "=", " ", ":",
  "a", " ", "a", "n", "d", " ", "z", " ", "=", " ", ":", "b">>

Ex_Reversed ==
  <<"y", " ", "=", " ", ":", "b", " ", "a", "n", "d", " ", "x", " ", "=", " ", ":",
  "a">>

Ex_Longer ==
  <<"v", " ", "=", " ", ":", "a", "b">>

Ex_Identifier ==
  <<"k", " ", "=", " ", ":", "i", "d", "e", "n", "t", "i", "f", "i", "e", "r">>

\* The statements given to placeholder translation: every short text, a
\* token followed by each character once and twice, and longer statements.
PGTexts ==
  SeqsUpTo(TextChars, MaxLen)
    \cup {<<":", "a", c>> : c \in FollowChars}
    \cup {<<":", "a", c, ":", "a", c, "b">> : c \in FollowChars}
    \cup {Ex_TwoParams, Ex_Reversed, Ex_Longer, Ex_Identifier}

ParamNames == {<<"a">>, <<"b">>, <<"a", "b">>, <<"i", "d">>}

\* Params.SetInputParam(name, 1) on an empty list.
InParam(name) == [Name |-> name, Value |-> IntV(1), Values |-> <<>>, ParamType |-> "IN"]

\* Parameter lists of up to two parameters of different names.
PGParamLists ==
  {<<>>}
    \cup {<<InParam(n)>> : n \in ParamNames}
    \cup {<<InParam(nm[1]), InParam(nm[2])>> :
            nm \in {x \in ParamNames \X ParamNames : x[1] # x[2]}}

\* A call of GetSql: the assembled text is handed back, nothing else changes.
GetSqlCall ==
  /\ out' = GetSql(Sql, Macros, Params, Dialect)
  /\ lastOp' = "GetSql"
  /\ arg' = NoArg
  /\ dest' = NoTarget
  /\ result' = "ok"
  /\ err' = "nil"
  /\ calls' = <<>>
  /\ UNCHANGED <<Fields, srvVars, hasTx, hasCtx, cursorVars, drvRows, steps, found,
                 Sql, Params, BatchSize, Macros, MasterSource, master, Dialect>>

\* Placeholder translation: a DataSet with a statement and named parameters
\* on a connection of either dialect.
InitPG ==
  /\ Fresh
  /\ NoServer
  /\ hasTx = FALSE
  /\ Sql \in PGTexts
  /\ Params \in PGParamLists
  /\ BatchSize = 0
  /\ Macros = <<>>
  /\ MasterSource = NewMasterSource
  /\ master = NoMaster
  /\ Dialect \in Dialects

NextPG == GetSqlCall

SpecPG == InitPG /\ [][NextPG]_vars

\* Field names of the master and of the detail.
F_CODE == <<"C", "O", "D", "E">>
F_ID == <<"I", "D">>
F_REF == <<"R", "E", "F">>

T_TwoLines ==
  <<"s", "e", "l", "e", "c", "t", " ", "*", "\n", "f", "r", "o", "m", " ", "t">>

T_WhereA ==
  <<"s", "e", "l", "e", "c", "t", " ", "*", " ", "f", "r", "o", "m", " ", "t", " ",
  "w", "h", "e", "r", "e", " ", "a", " ", "=", " ", ":", "a">>

\* The statements of a detail: one line, two lines, one with a parameter.
MDTexts == {T_SelectT, T_TwoLines, T_WhereA}

\* The parameters of a detail before assembly: none, one the statement names,
\* one that has the name of an alias already.
MDParamLists == {<<>>, <<InParam(<<"a">>)>>, <<InParam(F_CODE \o Pad4(0))>>}

\* A row of the master.
MasterRow(code, id) == (F_CODE :> IntV(code)) @@ (F_ID :> IntV(id))

\* The master DataSet: without rows, or on the first of two rows.
Masters ==
  {NoMaster,
   [Rows |-> <<MasterRow(7, 1), MasterRow(8, 2)>>, Index |-> 0, Recno |-> 1,
    Params |-> <<InParam(<<"a">>)>>, Sql |-> T_WhereA]}

\* MasterSource with a master attached.
Link(m, d) == [DataSource |-> TRUE, MasterFields |-> m, DetailFields |-> d]

\* No master; a master with equal, different, empty and unequal field lists.
MasterLinks ==
  {NewMasterSource,
   Link(<<F_CODE>>, <<F_CODE>>),
   Link(<<F_ID>>, <<F_REF>>),
   Link(<<F_CODE, F_ID>>, <<F_CODE, F_REF>>),
   Link(<<>>, <<>>),
   Link(<<>>, <<F_CODE>>),
   Link(<<F_CODE>>, <<F_CODE, F_REF>>),
   Link(<<F_CODE, F_ID>>, <<F_CODE>>)}

\* A call of GetSqlMasterDetail: the alias parameters are registered and the
\* text is handed back, or the call panics on the way.
GetSqlMasterDetailCall ==
  \E asm \in {GetSqlMasterDetail(Sql, Macros, Params, MasterSource, master, Dialect)} :
    /\ Params' = asm.params
    /\ master' = asm.master
    /\ IF asm.panic
       THEN /\ out' = out
            /\ Panicked("GetSqlMasterDetail")
       ELSE /\ out' = asm.sql
            /\ lastOp' = "GetSqlMasterDetail"
            /\ arg' = NoArg
            /\ dest' = NoTarget
            /\ result' = "ok"
            /\ err' = "nil"
            /\ calls' = <<>>
    /\ UNCHANGED <<Fields, srvVars, hasTx, hasCtx, cursorVars, drvRows, steps, found,
                   Sql, BatchSize, Macros, MasterSource, Dialect>>

\* The master moved to the cursor position pos.
MasterAt(op, pos) ==
  /\ MasterSource.DataSource
  /\ master' = [master EXCEPT !.Index = pos.Index, !.Recno = pos.Recno]
  /\ lastOp' = op
  /\ arg' = NoArg
  /\ dest' = NoTarget
  /\ result' = "ok"
  /\ err' = "nil"
  /\ calls' = <<>>
  /\ UNCHANGED <<Fields, srvVars, hasTx, hasCtx, cursorVars, drvRows, steps, found,
                 Sql, Params, BatchSize, Macros, MasterSource, Dialect, out>>

\* First and Last of the master DataSet.
MasterFirst == MasterAt("Master.First", FirstPos(Len(master.Rows)))

MasterLast == MasterAt("Master.Last", LastPos(Len(master.Rows)))

\* Master-detail: a detail DataSet with a statement, with or without a master.
InitMD ==
  /\ Fresh
  /\ NoServer
  /\ hasTx = FALSE
  /\ Sql \in MDTexts
  /\ Params \in MDParamLists
  /\ BatchSize = 0
  /\ Macros = <<>>
  /\ MasterSource \in MasterLinks
  /\ master \in Masters
  /\ Dialect \in Dialects

NextMD ==
  \/ GetSqlMasterDetailCall
  \/ Open
  \/ OpenContext
  \/ MasterFirst
  \/ MasterLast

SpecMD == InitMD /\ [][NextMD]_vars

T_InIds ==
  <<"i", "n", " ", "(", "&", "i", "d", "s", ")">>

T_Twice ==
  <<"a", " ", "=", " ", "&", "n", " ", "a", "n", "d", " ", "b", " ", "i", "n", " ",
  "(", "&", "i", "d", "s", ")", " ", "o", "r", " ", "c", " ", "i", "n", " ", "(", "&",
  "i", "d", "s", ")">>

T_NoMacro ==
  <<"s", "e", "l", "e", "c", "t", " ", "1">>

\* Statements with macro references: one, several, none.
MacroTexts == {T_InIds, T_Twice, T_NoMacro, <<"&", "n">>}

M_ids == <<"i", "d", "s">>
M_n == <<"n">>

\* Macros.SetMacro(name, value) on an empty list.
Macro(name, value) == [Name |-> name, Value |-> value]

\* Scalar values of a macro.
ScalarValues == {IntV(5), StrV(<<"x">>)}

\* Slice values of a macro: []int, []string and []any (with strings, and with
\* a string and an integer).
SliceValues ==
  {ListV("int", <<IntV(1), IntV(2), IntV(3)>>),
   ListV("int", <<>>),
   ListV("string", <<StrV(<<"x">>), StrV(<<"y">>)>>),
   ListV("any", <<StrV(<<"x">>), StrV(<<"y">>)>>),
   ListV("any", <<StrV(<<"x">>), IntV(1)>>)}

\* Macro lists: none, ids alone, n and ids in either order.
MacroLists ==
  {<<>>}
    \cup {<<Macro(M_ids, v)>> : v \in ScalarValues \cup SliceValues}
    \cup {<<Macro(M_n, w), Macro(M_ids, v)>> : w \in ScalarValues, v \in SliceValues}
    \cup {<<Macro(M_ids, v), Macro(M_n, w)>> : w \in ScalarValues, v \in SliceValues}

\* Macro substitution: a DataSet with a statement and macros, no parameters.
InitMacro ==
  /\ Fresh
  /\ NoServer
  /\ hasTx = FALSE
  /\ Sql \in MacroTexts
  /\ Params = <<>>
  /\ BatchSize = 0
  /\ Macros \in MacroLists
  /\ MasterSource = NewMasterSource
  /\ master = NoMaster
  /\ Dialect \in Dialects

NextMacro == GetSqlCall

SpecMacro == InitMacro /\ [][NextMacro]_vars

\* Closing: a DataSet with or without a statement, parameters, a macro and a
\* master, which is opened, navigated and closed.
InitClose ==
  /\ Fresh
  /\ NoServer
  /\ hasTx = FALSE
  /\ Sql \in {T_SelectT, <<>>}
  /\ Params \in MDParamLists
  /\ BatchSize \in {0, 1}
  /\ Macros \in {<<>>, <<Macro(M_n, IntV(5))>>}
  /\ MasterSource \in {NewMasterSource, Link(<<F_CODE>>, <<F_CODE>>)}
  /\ master \in Masters
  /\ Dialect = "ORACLE"

NextClose ==
  \/ Open
  \/ DsNext
  \/ Close
  \/ CloseNoClearSQL

SpecClose == InitClose /\ [][NextClose]_vars

\* Parameter discovery keeps the parameter list below this length.
MaxParams == 5

\* The characters of an identifier.
IdentChars ==
  {"a", "b", "c", "d", "e", "f", "g", "h", "i", "j", "k", "l", "m", "n", "o", "p",
   "q", "r", "s", "t", "u", "v", "w", "x", "y", "z", "A", "B", "C", "D", "E", "F",
   "G", "H", "I", "J", "K", "L", "M", "N", "O", "P", "Q", "R", "S", "T", "U", "V",
   "W", "X", "Y", "Z", "0", "1", "2", "3", "4", "5", "6", "7", "8", "9", "_"}

\* The length of the identifier that starts at 0-based offset i of s.
RECURSIVE IdentLen(_, _)
IdentLen(s, i) ==
  IF i < Len(s) /\ s[i + 1] \in IdentChars THEN 1 + IdentLen(s, i + 1) ELSE 0

\* The names of the bind-variable tokens of s from offset i on, one entry
\* per name in order of first appearance; seen are the names met before.
RECURSIVE bindNames(_, _, _)
bindNames(s, i, seen) ==
  IF i >= Len(s) THEN seen
  ELSE IF s[i + 1] = ":" /\ IdentLen(s, i + 1) > 0
       THEN LET name == Slice(s, i + 1, i + 1 + IdentLen(s, i + 1))
            IN bindNames(s, i + 1 + Len(name),
                         IF \E k \in 1..Len(seen) : seen[k] = name
                         THEN seen ELSE Append(seen, name))
       ELSE bindNames(s, i + 1, seen)

\* preprocesssql.PreprocessSQL, the parameters it reports.
PreprocessSQL(s) == bindNames(s, 0, <<>>)

\* The Param literal of Prepare: the name and the empty text as value.
NewParam(name) ==
  [Name |-> name, Value |-> StrV(<<>>), Values |-> <<>>, ParamType |-> "IN"]

\* The loop of Prepare: one parameter appended per reported name.
Prepared(params, names) == params \o [k \in 1..Len(names) |-> NewParam(names[k])]

\* DataSet.Prepare.
Prepare ==
  \E ps \in {Prepared(Params, PreprocessSQL(GetSql(Sql, Macros, Params, Dialect)))} :
    /\ Len(ps) <= MaxParams
    /\ Params' = ps
    /\ lastOp' = "Prepare"
    /\ arg' = NoArg
    /\ dest' = NoTarget
    /\ result' = "ok"
    /\ err' = "nil"
    /\ calls' = <<>>
    /\ UNCHANGED <<Fields, srvVars, hasTx, hasCtx, cursorVars, drvRows, steps, found,
                   Sql, BatchSize, Macros, MasterSource, master, Dialect, out>>

\* DataSet.SetInputParam(name, 1).
SetInputParamCall ==
  \E name \in {<<"a">>, <<"b">>} :
    /\ Params' = SetInputParam(Params, name, IntV(1))
    /\ lastOp' = "SetInputParam"
    /\ arg' = NoArg
    /\ dest' = NoTarget
    /\ result' = "ok"
    /\ err' = "nil"
    /\ calls' = <<>>
    /\ UNCHANGED <<Fields, srvVars, hasTx, hasCtx, cursorVars, drvRows, steps, found,
                   Sql, BatchSize, Macros, MasterSource, master, Dialect, out>>

\* Parameter discovery: a DataSet with a statement and no parameter yet.
InitPrepare ==
  /\ Fresh
  /\ NoServer
  /\ hasTx = FALSE
  /\ Sql \in {T_SelectT, T_Statement, Ex_TwoParams, Ex_Reversed}
  /\ Params = <<>>
  /\ BatchSize = 0
  /\ Macros = <<>>
  /\ MasterSource = NewMasterSource
  /\ master = NoMaster
  /\ Dialect \in Dialects

NextPrepare ==
  \/ Prepare
  \/ SetInputParamCall
  \/ GetSqlCall

SpecPrepare == InitPrepare /\ [][NextPrepare]_vars

\* Translation and wrapping together: a detail DataSet on a POSTGRESQL
\* connection with a statement and named parameters, without a master or
\* with a master on its first row.
InitWrap ==
  /\ Fresh
  /\ NoServer
  /\ hasTx = FALSE
  /\ Sql \in PGTexts \cup MDTexts
  /\ Params \in PGParamLists
  /\ BatchSize = 0
  /\ Macros = <<>>
  /\ MasterSource \in {NewMasterSource, Link(<<F_CODE>>, <<F_CODE>>),
                        Link(<<F_CODE, F_ID>>, <<F_CODE>>)}
  /\ master = [Rows |-> <<MasterRow(7, 1), MasterRow(8, 2)>>, Index |-> 0, Recno |-> 1,
               Params |-> <<InParam(<<"a">>)>>, Sql |-> T_WhereA]
  /\ Dialect = "POSTGRESQL"

NextWrap ==
  \/ GetSqlCall
  \/ GetSqlMasterDetailCall

SpecWrap == InitWrap /\ [][NextWrap]_vars

\* The Field Set must stay below this number of fields.
MaxFields == 4

T_SelectKeyNote ==
  <<"s", "e", "l", "e", "c", "t", " ", "K", "E", "Y", ",", " ", "N", "O", "T", "E", " ", "f", "r", "o", "m", " ", "t">>

T_SelectKey ==
  <<"s", "e", "l", "e", "c", "t", " ", "K", "E", "Y", " ", "f", "r", "o", "m", " ", "t">>

\* sqlparser.Parse and the walk over SelectExprs: the names of the columns
\* and aliases of the select list; a star names no column.
SelectExprs(sql) ==
  CASE sql = T_SelectKeyNote -> DriverColumns
    [] sql = T_SelectKey -> <<DriverColumns[1]>>
    [] OTHER -> <<>>

\* Fields.Add for each name of names, on the list fields.
RECURSIVE AddFields(_, _)
AddFields(fields, names) ==
  IF names = <<>> THEN fields
  ELSE AddFields(Append(fields, NewField(Head(names), Len(fields))), Tail(names))

\* DataSet.CreateFields: one field per column of the select list.
CreateFields ==
  \E fs \in {AddFields(Fields, SelectExprs(GetSql(Sql, Macros, Params, Dialect)))} :
    /\ Len(fs) <= MaxFields
    /\ Fields' = fs
    /\ lastOp' = "CreateFields"
    /\ arg' = NoArg
    /\ dest' = NoTarget
    /\ result' = "ok"
    /\ err' = "nil"
    /\ calls' = <<>>
    /\ UNCHANGED <<srvVars, hasTx, hasCtx, cursorVars, drvRows, steps, found, sqlVars>>

\* The scan kinds a driver can report for a column ("time" is the struct
\* time.Time, "struct" any other struct).
ColumnKinds ==
  {"string", "int", "int8", "int16", "int32", "int64", "float32", "float64",
   "time", "struct", "bool", "uint64", "slice"}

\* The kinds of the two columns of a result: each kind on each column.
KindLists ==
  {<<k, "int64">> : k \in ColumnKinds} \cup {<<"string", k>> : k \in ColumnKinds}

\* DataSet.Open on a result of at most one row whose columns have any kinds.
OpenTyped ==
  LET c == IF hasCtx THEN "ds" ELSE "none"
  IN \E asm \in {GetSqlMasterDetail(Sql, Macros, Params, MasterSource, master, Dialect)} :
     \E run \in Runs("tx", c, "none") :
       \E list \in {l \in Results(asm, run) : Len(l) <= 1} :
         \E kinds \in KindLists :
           /\ OpenedWith("Open", asm, run, list, kinds)
           /\ master' = asm.master
           /\ UNCHANGED <<srvVars, hasTx, hasCtx, found, Sql, BatchSize, Macros, MasterSource,
                          Dialect>>

\* The Field Set: a DataSet with a statement whose fields are declared from
\* the statement or built from the result.
InitFields ==
  /\ Fresh
  /\ NoServer
  /\ hasTx = FALSE
  /\ Sql \in {T_SelectT, T_SelectKeyNote, T_SelectKey}
  /\ Params = <<>>
  /\ BatchSize = 0
  /\ Macros = <<>>
  /\ MasterSource = NewMasterSource
  /\ master = NoMaster
  /\ Dialect = "ORACLE"

NextFields ==
  \/ CreateFields
  \/ OpenTyped
  \/ CloseNoClearSQL

SpecFields == InitFields /\ [][NextFields]_vars

\* Statement execution on a detail: a DataSet with a statement, parameters
\* and a master attached in every way, on a connection or a transaction.
InitExecMD ==
  /\ Fresh
  /\ NoServer
  /\ hasTx \in BOOLEAN
  /\ Sql \in MDTexts
  /\ Params \in MDParamLists
  /\ BatchSize = 0
  /\ Macros = <<>>
  /\ MasterSource \in MasterLinks
  /\ master \in Masters
  /\ Dialect \in Dialects

NextExecMD ==
  \/ Exec
  \/ ExecContext
  \/ AddContext
  \/ MasterLast

SpecExecMD == InitExecMD /\ [][NextExecMD]_vars

\* The entity gates of the server: configurations are registered while
\* requests arrive, under each global JWT setting.
InitAuth ==
  /\ Fresh
  /\ hasTx = FALSE
  /\ Sql = T_SelectT
  /\ Params = <<>>
  /\ BatchSize = 0
  /\ Macros = <<>>
  /\ MasterSource = NewMasterSource
  /\ master = NoMaster
  /\ Dialect = "ORACLE"
  /\ config \in [EnableJWT : BOOLEAN, RequireAuth : BOOLEAN]
  /\ entityAuth = [e \in {} |-> ZeroConfig]
  /\ request = NoRequest
  /\ response = NoResponse

NextAuth ==
  \/ SetEntityAuth
  \/ RequireEntityAuth
  \/ CheckEntityReadOnly

SpecAuth == InitAuth /\ [][NextAuth]_vars

\* ------------------------------------------------------------------ claims

Opens == {"Open", "OpenContext"}

\* C1: whenever the row store is not empty the cursor satisfies
\* Recno = Index + 1, and Recno is 0 only while the row store is empty
\* (every operation that fills the row store also positions the cursor).
C1_RecnoIsIndexPlusOne == Count > 0 => (Recno = Index + 1 /\ Recno # 0)

\* C1 witness: a Locate has parked the cursor on the second of several rows.
C1_Witness == lastOp = "Locate" /\ found /\ Count >= 2 /\ Recno = 2

\* C2: on a non-empty row store, after First and k calls of Next with nothing
\* between, Eof holds exactly when k >= Count, and up to there the cursor is
\* on row k + 1 (Recno = k + 1, Index = k): each row is visited once, in order.
C2_NextReachesEofAfterCount ==
  (steps >= 0 /\ Count > 0) =>
    /\ Eof <=> steps >= Count
    /\ steps <= Count => (Recno = steps + 1 /\ Index = steps)

\* C2 witness: the Count-th Next after First has just reached Eof.
C2_Witness == lastOp = "Next" /\ Count >= 2 /\ steps = Count /\ Eof

\* C3: with a transaction bound, every query of Open and OpenContext goes to
\* the transaction; without one, to the connection.
C3_QueryOnBoundTx ==
  lastOp \in Opens =>
    \A i \in 1..Len(calls) :
      calls[i].op = "Query" => calls[i].on = (IF hasTx THEN "tx" ELSE "conn")

\* C4: after a successful Open the row store holds exactly the rows the driver
\* returned to this Open, and the cursor is on the first row.
C4_OpenLoadsDriverRows ==
  (lastOp \in Opens /\ result = "ok") =>
    /\ Rows = drvRows
    /\ Count = Len(drvRows)
    /\ Index = 0
    /\ Recno = (IF Count > 0 THEN 1 ELSE 0)

\* C4 witness: an Open has loaded several rows.
C4_Witness == lastOp = "Open" /\ result = "ok" /\ Count >= 2 /\ Recno = 1

Executions == {"Open", "OpenContext", "Exec", "ExecContext", "ExecBatch"}

\* C6: whatever the driver does, Open, OpenContext, Exec, ExecContext and
\* ExecBatch end by returning: with success, or with a non-nil error; none
\* of them panics.
C6_ReturnsOrFails ==
  lastOp \in Executions =>
    /\ result \in {"ok", "err"}
    /\ result = "err" => err # "nil"

\* The token of a parameter in a statement.
Token(p) == <<":">> \o p.Name

\* The characters that end a token.
Boundary == {" ", ",", "(", ")", "=", "|", "[", "]"}

\* tok occurs at 0-based offset i of s.
Occurrences(s, tok) == {i \in 0..(Len(s) - 1) : MatchAt(s, i, tok)}

\* A valid occurrence: tok at offset i, followed by a boundary character or
\* by the end of the text.
ValidAt(s, i, tok) ==
  /\ MatchAt(s, i, tok)
  /\ \/ i + Len(tok) = Len(s)
     \/ s[i + Len(tok) + 1] \in Boundary

\* The parameters of which a valid occurrence starts at offset i.
ValidHere(s, i, params) == {p \in 1..Len(params) : ValidAt(s, i, Token(params[p]))}

\* The text read from offset i on, left to right, where every valid
\* occurrence of the token of the parameter at position p is "$p".
RECURSIVE Translated(_, _, _)
Translated(s, i, params) ==
  IF i >= Len(s) THEN <<>>
  ELSE IF ValidHere(s, i, params) = {}
       THEN <<s[i + 1]>> \o Translated(s, i + 1, params)
       ELSE LET p == CHOOSE q \in ValidHere(s, i, params) : TRUE
            IN <<"$">> \o Itoa(p) \o Translated(s, i + Len(Token(params[p])), params)

Ex_TwoParamsOut ==
  <<"x", " ", "=", " ", "$", "1", " ", "a", "n", "d", " ", "y", " ", "=", " ", "$",
  "1", " ", "a", "n", "d", " ", "z", " ", "=", " ", "$", "2">>

Ex_ReversedOut ==
  <<"y", " ", "=", " ", "$", "2", " ", "a", "n", "d", " ", "x", " ", "=", " ", "$",
  "1">>

\* C7: under the positional dialect the text GetSql returns is the statement
\* with every valid occurrence of the token of the parameter at list position
\* p (1-based) replaced by "$p", whatever the order of the tokens in the
\* statement; on the two statements of the specification with the parameters
\* a, b it is "x = $1 and y = $1 and z = $2" and "y = $2 and x = $1".
C7_NumberIsListPosition ==
  (lastOp = "GetSql" /\ Dialect = "POSTGRESQL") =>
    /\ out = Translated(Normalize(Sql), 0, Params)
    /\ (Params = <<InParam(<<"a">>), InParam(<<"b">>)>> /\ Sql = Ex_TwoParams)
         => out = Ex_TwoParamsOut
    /\ (Params = <<InParam(<<"a">>), InParam(<<"b">>)>> /\ Sql = Ex_Reversed)
         => out = Ex_ReversedOut

\* C7 witness: the parameter listed second appears first in the statement
\* and is numbered 2.
C7_Witness ==
  /\ lastOp = "GetSql"
  /\ Dialect = "POSTGRESQL"
  /\ Sql = Ex_Reversed
  /\ Params = <<InParam(<<"a">>), InParam(<<"b">>)>>
  /\ out = Ex_ReversedOut

\* C8: under the positional dialect an occurrence of a token that is not
\* valid (followed by a character that is no boundary) and that is not the
\* beginning of a valid occurrence of a longer token is still in the text
\* GetSql returns, wherever it stands; no valid occurrence of a token is left
\* in that text; a statement without a valid occurrence comes back unchanged.
C8_OnlyAtBoundary ==
  (lastOp = "GetSql" /\ Dialect = "POSTGRESQL") =>
    LET in == Normalize(Sql)
    IN /\ \A p \in 1..Len(Params) :
            LET tok == Token(Params[p])
                kept == {i \in Occurrences(in, tok) : ValidHere(in, i, Params) = {}}
            IN /\ Cardinality(Occurrences(out, tok)) = Cardinality(kept)
               /\ \A i \in Occurrences(out, tok) : ~ValidAt(out, i, tok)
       /\ (\A i \in 0..(Len(in) - 1) : ValidHere(in, i, Params) = {}) => out = in

\* C8 witness: ":a" inside ":ab" was left alone although a is a parameter.
C8_Witness ==
  /\ lastOp = "GetSql"
  /\ Dialect = "POSTGRESQL"
  /\ Sql = Ex_Longer
  /\ Params = <<InParam(<<"a">>)>>
  /\ out = Ex_Longer

Assemblies == {"Open", "OpenContext", "GetSqlMasterDetail"}

\* A master is attached with k >= 1 master fields and k detail fields.
LinkedByFields ==
  /\ MasterSource.DataSource
  /\ Len(MasterSource.MasterFields) >= 1
  /\ Len(MasterSource.MasterFields) = Len(MasterSource.DetailFields)

\* The bind alias of condition i: the master field name and i in four digits.
AliasName(i) == MasterSource.MasterFields[i + 1] \o <<"0", "0", "0">> \o Itoa(i)

\* "d_i = :alias_i and ... and d_{k-1} = :alias_{k-1}".
RECURSIVE Conditions(_)
Conditions(i) ==
  LET cond == MasterSource.DetailFields[i + 1] \o <<" ", "=", " ", ":">> \o AliasName(i)
  IN IF i = Len(MasterSource.MasterFields) - 1
     THEN cond
     ELSE cond \o <<" ", "a", "n", "d", " ">> \o Conditions(i + 1)

\* "select * from (<sql>) t where <conditions>".
Wrapper(sql) ==
  <<"s", "e", "l", "e", "c", "t", " ", "*", " ", "f", "r", "o", "m", " ", "(">>
    \o sql \o <<")", " ", "t", " ", "w", "h", "e", "r", "e", " ">> \o Conditions(0)

\* Every alias is an input parameter with the value of its master field in
\* the current row of the master.
AliasesRegistered ==
  \A i \in 0..(Len(MasterSource.MasterFields) - 1) :
    \E p \in 1..Len(Params) :
      /\ Params[p].Name = AliasName(i)
      /\ Params[p].ParamType = "IN"
      /\ Params[p].Value = master.Rows[master.Index + 1][MasterSource.MasterFields[i + 1]]

MasterOnRow == master.Index + 1 \in 1..Len(master.Rows)

Ex_Wrapped ==
  <<"s", "e", "l", "e", "c", "t", " ", "*", " ", "f", "r", "o", "m", " ", "(", "s",
  "e", "l", "e", "c", "t", " ", "*", " ", "f", "r", "o", "m", " ", "t", ")", " ", "t",
  " ", "w", "h", "e", "r", "e", " ", "C", "O", "D", "E", " ", "=", " ", ":", "C", "O",
  "D", "E", "0", "0", "0", "0">>

\* C9 as stated: with a master attached and k >= 1 master and k detail
\* fields, the text assembled for the statement <sql> is
\* "select * from (<sql>) t where d_0 = :alias_0 and ...", and every alias is
\* an input parameter holding the master's value.
C9_WrapperKeepsAliasTokens ==
  (lastOp \in Assemblies /\ result # "panic" /\ LinkedByFields /\ MasterOnRow) =>
    /\ out = Wrapper(Sql)
    /\ AliasesRegistered

\* C9 amended: the wrapper is built around the text GetSql assembled, line
\* breaks are normalised once more, and under the positional dialect the
\* placeholder translation is then applied with the aliases in the parameter
\* list, so each ":alias_i" reads "$N"; under the other dialect, master field
\* CODE, detail field CODE, master row CODE = 7 and "select * from t" give
\* "select * from (select * from t) t where CODE = :CODE0000" and CODE0000 = 7.
C9_WrapperThenTranslation ==
  (lastOp \in Assemblies /\ result # "panic" /\ LinkedByFields) =>
    LET w == Wrapper(Normalize(Normalize(Sql)))
    IN /\ out = IF Dialect = "POSTGRESQL" THEN Translated(w, 0, Params) ELSE w
       /\ MasterOnRow => AliasesRegistered
       /\ (Dialect # "POSTGRESQL" /\ Sql = T_SelectT /\ MasterOnRow /\ master.Recno = 1
             /\ MasterSource = Link(<<F_CODE>>, <<F_CODE>>)) =>
            /\ out = Ex_Wrapped
            /\ \E p \in 1..Len(Params) :
                 Params[p].Name = <<"C", "O", "D", "E", "0", "0", "0", "0">>
                   /\ Params[p].Value = IntV(7)

\* C9 witness: an Open under the positional dialect with two linked fields,
\* the master on its second row, and both aliases numbered in the text.
C9_Witness ==
  /\ lastOp = "Open"
  /\ result = "ok"
  /\ Dialect = "POSTGRESQL"
  /\ MasterSource = Link(<<F_CODE, F_ID>>, <<F_CODE, F_REF>>)
  /\ master.Recno = 2
  /\ Sql = T_WhereA
  /\ Len(Params) = 3
  /\ Occurrences(out, <<"$", "3">>) # {}
  /\ AliasesRegistered

\* The string form of a scalar or of an element.
StringForm(x) == IF x.k = "int" THEN Itoa(x.v) ELSE x.v

\* What a macro stands for: the string form of a scalar; the elements of a
\* sequence joined with ", ", the strings among them in single quotes.
RECURSIVE Elements(_, _)
Elements(vs, i) ==
  IF i > Len(vs) THEN <<>>
  ELSE (IF vs[i].k = "str" THEN <<"'">> \o vs[i].v \o <<"'">> ELSE StringForm(vs[i]))
         \o (IF i < Len(vs) THEN <<",", " ">> ELSE <<>>)
         \o Elements(vs, i + 1)

Rendered(value) == IF value.k = "list" THEN Elements(value.v, 1) ELSE StringForm(value)

\* The macros whose reference &name starts at offset i of s.
MacroHere(s, i, macros) ==
  {m \in 1..Len(macros) : MatchAt(s, i, <<"&">> \o macros[m].Name)}

\* The text read from offset i on where every &name is what the macro stands for.
RECURSIVE Substituted(_, _, _)
Substituted(s, i, macros) ==
  IF i >= Len(s) THEN <<>>
  ELSE IF MacroHere(s, i, macros) = {}
       THEN <<s[i + 1]>> \o Substituted(s, i + 1, macros)
       ELSE LET m == CHOOSE q \in MacroHere(s, i, macros) : TRUE
            IN Rendered(macros[m].Value)
                 \o Substituted(s, i + 1 + Len(macros[m].Name), macros)

\* C10: the text GetSql returns is the statement with every &name replaced:
\* by the string form of a scalar macro, by the elements of a sequence macro
\* joined with ", ", each string element in single quotes and no other.
C10_MacroSubstitution ==
  lastOp = "GetSql" => out = Substituted(Sql, 0, Macros)

\* The executions of the prepared statement among the calls, in order.
Execs == SelectSeq(calls, LAMBDA c : c.op = "StmtExec")

\* The values of all parameters at batch index i.
ValuesAt(i) == [p \in 1..Len(Params) |-> Params[p].Values[i + 1]]

\* C11: a call ExecBatch(n) in which no execution fails prepares the
\* statement once and executes it exactly n times, execution i (0-based)
\* with the value of every parameter at batch index i.
C11_ExecutesArgumentTimes ==
  (lastOp = "ExecBatch" /\ result = "ok") =>
    /\ CountOp(calls, "Prepare") = 1
    /\ Len(Execs) = arg.v
    /\ \A i \in 1..Len(Execs) : Execs[i].idx = i - 1 /\ Execs[i].args = ValuesAt(i - 1)

\* C12: when the execution at batch index j fails, ExecBatch returns the
\* error of that execution; executions 0..j-1 were made before it in index
\* order and succeeded, and no execution follows the failed one.
C12_FailFast ==
  (lastOp = "ExecBatch" /\ result = "err") =>
    /\ err = "exec"
    /\ Len(Execs) >= 1
    /\ \A i \in 1..Len(Execs) :
         /\ Execs[i].idx = i - 1
         /\ Execs[i].res = (IF i = Len(Execs) THEN "fail" ELSE "ok")
    /\ \A i \in 1..Len(calls) :
         calls[i].res = "fail" => \A k \in (i + 1)..Len(calls) : calls[k].op = "StmtClose"

\* C12 witness: the second execution failed although more were to come.
C12_Witness ==
  /\ lastOp = "ExecBatch"
  /\ result = "err"
  /\ Len(Execs) = 2
  /\ BatchSize = 3

\* The record a row is bound onto when nothing was in the record before:
\* KEY and NOTE as they are in the row, 0 for a null NOTE read as an int.
RecordOf(row) ==
  LET note == Column(row, "NOTE")
  IN [Key |-> Column(row, "KEY"),
      Note |-> IF note.k = "nil" THEN [k |-> "int", v |-> 0] ELSE note,
      Opt |-> note, Tags |-> [k |-> "nil"], Raw |-> note]

\* C13: ToStruct onto a pointer to a slice of records with the cursor on row
\* r appends Count - r + 1 records, those of the rows r..Count in order, and
\* leaves the cursor at Eof.
C13_BindsFromCurrentRow ==
  [][(lastOp' = "ToStruct" /\ dest'.kind = "slice" /\ Recno \in 1..Count) =>
       /\ Len(dest'.after) = Len(dest'.before) + (Count - Recno + 1)
       /\ \A i \in 1..(Count - Recno + 1) :
            dest'.after[Len(dest'.before) + i] = RecordOf(Rows[Recno - 1 + i])
       /\ Eof']_vars

\* The cases of C14: a record passed by value, a pointer to an int, a pointer
\* to a slice of ints.
Misfits == {"nonptr", "other", "sliceint"}

\* C14: ToStruct with a target that is not a pointer, that points to neither
\* a record nor a sequence, or that points to a sequence of non-records,
\* returns an error and changes neither the target nor the cursor.
C14_MisfitIsAnError ==
  [][(lastOp' = "ToStruct" /\ dest'.kind \in Misfits) =>
       /\ result' = "err"
       /\ err' # "nil"
       /\ dest'.after = dest'.before
       /\ Index' = Index
       /\ Recno' = Recno]_vars

\* A record target was bound from the current row.
BoundOneRow ==
  /\ lastOp = "ToStruct"
  /\ dest.kind = "struct"
  /\ result = "ok"
  /\ Index + 1 \in 1..Count

NoteIsNull == Column(Rows[Index + 1], "NOTE").k = "nil"

\* The fields of the record that are not of pointer type, with the column
\* each is bound from.
PlainFields == {<<"Key", "KEY">>, <<"Note", "NOTE">>, <<"Tags", "NOTE">>, <<"Raw", "NOTE">>}

\* The converted value of column x for an int field (0 for null) and for a
\* field of another type (the value as it is).
Converted(fieldName, x) ==
  IF fieldName \in {"Key", "Note"} /\ x.k = "nil" THEN [k |-> "int", v |-> 0] ELSE x

\* C15 as stated: binding one row onto a record assigns a pointer field only
\* for a non-null column and leaves it as it was for a null one; every field
\* that is not a pointer receives the converted value of its column.
C15_NonOptionalAlwaysAssigned ==
  BoundOneRow =>
    /\ dest.after.Opt = IF NoteIsNull THEN dest.before.Opt
                        ELSE Column(Rows[Index + 1], "NOTE")
    /\ \A f \in PlainFields :
         dest.after[f[1]] = Converted(f[1], Column(Rows[Index + 1], f[2]))

\* C15 amended: a pointer field is assigned only for a non-null column and
\* keeps its value for a null one; a field of a scalar type GetValue converts
\* always receives the converted value (0 for a null column read as an int);
\* a field of slice type is never assigned; a field of any other type is
\* assigned for a non-null column and keeps its value for a null one.
C15_OptionalKeptOnNull ==
  BoundOneRow =>
    LET row == Rows[Index + 1]
    IN /\ dest.after.Opt = IF NoteIsNull THEN dest.before.Opt ELSE Column(row, "NOTE")
       /\ dest.after.Key = Column(row, "KEY")
       /\ dest.after.Note = Converted("Note", Column(row, "NOTE"))
       /\ dest.after.Tags = dest.before.Tags
       /\ dest.after.Raw = IF NoteIsNull THEN dest.before.Raw ELSE Column(row, "NOTE")

\* C15 witness: a filled record was bound from a row whose NOTE is null; its
\* pointer field still holds what the caller put there, its int field is 0.
C15_Witness ==
  /\ BoundOneRow
  /\ NoteIsNull
  /\ dest.before = FilledRecord
  /\ dest.after.Opt = FilledRecord.Opt
  /\ dest.after.Note.v = 0

\* The rows (1-based) whose field key holds the value Locate was given.
Matches == {i \in 1..Count : Rows[i] = arg.v}

\* C16: Locate returns true exactly when some row holds the value, and the
\* cursor is then on the first such row; otherwise it returns false and the
\* cursor is at Eof.  Rows and value decide the result, whatever the cursor
\* was before.
C16_LocateFirstMatch ==
  lastOp = "Locate" =>
    /\ found <=> Matches # {}
    /\ found => /\ Recno \in Matches
                /\ \A i \in Matches : Recno <= i
                /\ Index = Recno - 1
    /\ ~found => Eof

\* C16 witness: two rows hold the value and the cursor is on the earlier one,
\* which is not the first row.
C16_Witness ==
  /\ lastOp = "Locate"
  /\ found
  /\ Count = 3
  /\ Recno = 2
  /\ Rows[3] = arg.v

\* Closed: no rows, no fields, no parameters, no macros, no master, cursor 0.
IsClosed ==
  /\ Rows = <<>>
  /\ Index = 0
  /\ Recno = 0
  /\ Fields = <<>>
  /\ Params = <<>>
  /\ Macros = <<>>
  /\ MasterSource = NewMasterSource

\* C17 as stated: Close takes the DataSet to Closed and leaves the SQL text
\* as it was.
C17_CloseKeepsSql ==
  [][lastOp' = "Close" => (IsClosed' /\ Sql' = Sql)]_vars

\* C17 amended: Close takes the DataSet to Closed and empties the SQL text;
\* CloseNoClearSQL takes it to Closed and leaves the SQL text as it was.
C17_CloseClearsSql ==
  [][/\ lastOp' = "Close" => (IsClosed' /\ Sql' = <<>>)
     /\ lastOp' = "CloseNoClearSQL" => (IsClosed' /\ Sql' = Sql)]_vars

\* C17 witness: a DataSet that had loaded rows is closed and has no SQL text.
C17_Witness ==
  /\ lastOp = "Close"
  /\ drvRows # <<>>
  /\ IsClosed
  /\ Sql = <<>>

C19_FirstOnFirstRow ==
  lastOp = "First" =>
    /\ Index = 0
    /\ Count = 0 => (Recno = 0 /\ Eof /\ Bof)
    /\ Count > 0 => (Recno = 1 /\ Bof /\ ~Eof)

\* C19 witness: First on an empty row store.
C19_Witness == lastOp = "First" /\ Count = 0 /\ Recno = 0 /\ Eof

\* C20: Next moves Index and Recno up by one when Eof is false and changes
\* neither at Eof; Previous moves both down by one when Bof is false and
\* changes neither at Bof; Index stays >= 0 and Recno <= Count + 1.
C20_StepOnlyInsideRows ==
  [][/\ lastOp' = "Next" =>
          IF ~Eof THEN Index' = Index + 1 /\ Recno' = Recno + 1
                  ELSE Index' = Index /\ Recno' = Recno
     /\ lastOp' = "Previous" =>
          IF ~Bof THEN Index' = Index - 1 /\ Recno' = Recno - 1
                  ELSE Index' = Index /\ Recno' = Recno
     /\ lastOp' \in {"Next", "Previous"} => (Index' >= 0 /\ Recno' <= Count' + 1)]_vars

\* C20 witness: one more Next than there are rows, and the cursor is where
\* the Count-th Next left it.
C20_Witness ==
  /\ lastOp = "Next"
  /\ Count >= 1
  /\ steps = Count + 1
  /\ Recno = Count + 1
  /\ Index = Count

\* The parameters Prepare has to add: one empty-valued input parameter per
\* bind-variable name of the statement that is not registered, in order of
\* first appearance.
Unregistered ==
  SelectSeq(bindNames(Normalize(Sql), 0, <<>>),
            LAMBDA n : \A j \in 1..Len(Params) : Params[j].Name # n)

\* C21: Prepare appends one empty-valued input parameter per bind variable
\* of the statement that is not registered, in order of first appearance,
\* and nothing for a registered one, so a second Prepare changes nothing.
C21_PrepareAddsEachOnce ==
  [][lastOp' = "Prepare" =>
       Params' = Params \o [k \in 1..Len(Unregistered) |->
                              [Name |-> Unregistered[k], Value |-> StrV(<<>>),
                               Values |-> <<>>, ParamType |-> "IN"]]]_vars

\* C22: when the query of Open or OpenContext on a connection fails and the
\* ping succeeds, there is no reconnect and no second query, and the error
\* returned is the error of the query, unchanged.
C22_PingOkReturnsQueryError ==
  (/\ lastOp \in Opens
   /\ Len(calls) >= 2
   /\ calls[1].op = "Query" /\ calls[1].res = "fail"
   /\ calls[2].op = "Ping" /\ calls[2].res = "ok") =>
    /\ CountOp(calls, "ConnOpen") = 0
    /\ CountOp(calls, "Query") = 1
    /\ result = "err"
    /\ err = "q1"

\* C23: on a connection whose dialect is not the positional one the
\* assembled SQL is the normalised statement with every :name token in
\* place: placeholder translation changes no character of it, whatever
\* the parameter list is.
C23_OtherDialectUntouched ==
  (lastOp = "GetSql" /\ Dialect # "POSTGRESQL") => out = Normalize(Sql)

\* C23 witness: a statement assembled for ORACLE with registered parameters
\* whose tokens the positional dialect would have rewritten.
C23_Witness ==
  /\ lastOp = "GetSql"
  /\ Dialect = "ORACLE"
  /\ Len(Params) = 2
  /\ replaceFrom(out, Params, 0) # out

\* A master is attached and its field lists are not usable: one of them is
\* empty, or both are, or their lengths differ.
Misconfigured ==
  /\ MasterSource.DataSource
  /\ ~(/\ Len(MasterSource.MasterFields) >= 1
       /\ Len(MasterSource.MasterFields) = Len(MasterSource.DetailFields))

\* C24: with a master attached and field lists that are not both non-empty
\* and of equal length, an assembly does not abort, leaves the parameter
\* list as it was (no alias is registered) and yields the statement without
\* the master-detail wrapper.
C24_MisconfiguredLinkIsSkipped ==
  [][(lastOp' \in Assemblies /\ Misconfigured) =>
       /\ result' # "panic"
       /\ Params' = Params
       /\ out' = LET s == Normalize(Normalize(Sql))
                 IN IF Dialect = "POSTGRESQL" THEN Translated(s, 0, Params) ELSE s]_vars

\* The i-th detail field name followed by i in four digits.
DetailAlias(i) == MasterSource.DetailFields[i + 1] \o <<"0", "0", "0">> \o Itoa(i)

\* C25: in the master-detail wrapper the bind alias of condition i is the
\* i-th detail field name followed by i in four zero-padded digits, also
\* when the master field has another name: that alias is a registered
\* parameter and, where the text keeps its tokens, condition i reads
\* "<detail_i> = :<detail_i>000i"; the aliases are pairwise distinct.
C25_AliasIsDetailName ==
  (lastOp \in Assemblies /\ result # "panic" /\ LinkedByFields) =>
    \A i \in 0..(Len(MasterSource.DetailFields) - 1) :
      /\ \E p \in 1..Len(Params) : Params[p].Name = DetailAlias(i)
      /\ Dialect # "POSTGRESQL" =>
           IndexOf(out, MasterSource.DetailFields[i + 1] \o <<" ", "=", " ", ":">>
                          \o DetailAlias(i)) >= 0
      /\ \A j \in 0..(Len(MasterSource.DetailFields) - 1) :
           i # j => DetailAlias(i) # DetailAlias(j)

\* C26: every Open assembles anew: after an Open of a detail DataSet whose
\* master is on a row, each alias is the name of exactly one parameter, and
\* that parameter holds the value of its master field in the row the master
\* is on at that Open, whatever an earlier Open had bound to it.
C26_OpenRebindsAliases ==
  [][(lastOp' \in Opens /\ result' # "panic" /\ LinkedByFields /\ MasterOnRow) =>
       \A i \in 0..(Len(MasterSource.MasterFields) - 1) :
         LET bound == {p \in 1..Len(Params') : Params'[p].Name = AliasName(i)}
         IN /\ Cardinality(bound) = 1
            /\ \A p \in bound :
                 Params'[p].Value =
                   master.Rows[master.Index + 1][MasterSource.MasterFields[i + 1]]]_vars

\* C26 witness: the DataSet was opened before (its fields are there), the
\* master has moved to its second row, and the Open that just ran, with a
\* query that failed, has bound the alias to the value of that row.
C26_Witness ==
  /\ lastOp = "Open"
  /\ result = "err"
  /\ Fields # <<>>
  /\ MasterSource = Link(<<F_CODE>>, <<F_CODE>>)
  /\ master.Recno = 2
  /\ \E p \in 1..Len(Params) :
       /\ Params[p].Name = <<"C", "O", "D", "E", "0", "0", "0", "0">>
       /\ Params[p].Value = IntV(8)

\* The value of parameter p for batch index i: its value at that index, or
\* its scalar value when it has none there.
ValueOrScalar(p, i) ==
  IF i < Len(Params[p].Values) THEN Params[p].Values[i + 1] ELSE Params[p].Value

\* C27: ExecBatch binds a parameter that has no value at batch index i to
\* its scalar value: once the statement is prepared the batch does not
\* abort, every execution binds each parameter to its value at that index
\* or else to its scalar value, and unless the driver fails an execution
\* all BatchSize executions are made and the batch succeeds.
C27_MissingBatchValueFallsBack ==
  (lastOp = "ExecBatch" /\ calls[1].op = "Prepare" /\ calls[1].res = "ok") =>
    /\ result # "panic"
    /\ \A i \in 1..Len(Execs) :
         Execs[i].args = [p \in 1..Len(Params) |-> ValueOrScalar(p, Execs[i].idx)]
    /\ (\A i \in 1..Len(Execs) : Execs[i].res = "ok") =>
         (result = "ok" /\ Len(Execs) = BatchSize)

\* No parameter has an occurrence of its token in s.
TokenFree(s) == \A p \in 1..Len(Params) : Occurrences(s, Token(Params[p])) = {}

\* C28: placeholder translation is idempotent.  A statement without any
\* occurrence of a parameter's token is assembled unchanged; translating an
\* assembled text again with the same parameters changes nothing; and the
\* text of a master-detail assembly, translated before and after the
\* wrapping, is the wrapper around the untranslated statement translated
\* once.
C28_TranslationIdempotent ==
  (lastOp \in {"GetSql", "GetSqlMasterDetail"} /\ result = "ok") =>
    /\ replaceAllParam(out, Params, Dialect) = out
    /\ (lastOp = "GetSql" /\ TokenFree(Normalize(Sql))) => out = Normalize(Sql)
    /\ (lastOp = "GetSqlMasterDetail" /\ LinkedByFields) =>
         out = replaceAllParam(
                 Normalize(T_SelectFrom \o Normalize(Sql) \o T_TWhere \o Conditions(0)),
                 Params, Dialect)

\* C28 witness: a statement that names one parameter twice and another once,
\* wrapped for a master and translated: the alias has the third number.
C28_Witness ==
  /\ lastOp = "GetSqlMasterDetail"
  /\ result = "ok"
  /\ Dialect = "POSTGRESQL"
  /\ LinkedByFields
  /\ Sql = Ex_TwoParams
  /\ Len(Params) = 3
  /\ IndexOf(out, <<"=", " ", "$", "1", " ">>) >= 0
  /\ IndexOf(out, <<"=", " ", "$", "3">>) >= 0

\* The calls of the last operation that are op and ended with res.
Ended(op, res) == {i \in 1..Len(calls) : calls[i].op = op /\ calls[i].res = res}

\* C29: every cursor and every prepared statement the driver handed out
\* during Open, OpenContext, Exec, ExecContext or ExecBatch is closed
\* exactly once before the call is over, on every path, after its last use,
\* and nothing is closed that was not obtained.
C29_HandlesClosedOnce ==
  lastOp \in Executions =>
    /\ Cardinality({i \in 1..Len(calls) : calls[i].op = "RowsClose"})
         = Cardinality(Ended("Query", "ok"))
    /\ Cardinality({i \in 1..Len(calls) : calls[i].op = "StmtClose"})
         = Cardinality(Ended("Prepare", "ok"))
    /\ \A i \in 1..Len(calls) :
         calls[i].op \in {"RowsClose", "StmtClose"} =>
           /\ calls[i].on # "nil"
           /\ i = Len(calls)

\* The context supplied to the last operation: the argument of OpenContext
\* and ExecContext, the context attached to the DataSet for the others, or
\* "none" when there is none.
Supplied ==
  IF lastOp \in {"OpenContext", "ExecContext"} THEN "arg"
  ELSE IF hasCtx THEN "ds" ELSE "none"

\* C30: when a context is supplied to Open, OpenContext, Exec, ExecContext
\* or ExecBatch, as an argument or attached to the DataSet, every query,
\* prepare and execution made during the operation, on the connection, on
\* the transaction or on the prepared statement, the retried query
\* included, is made with that context.
C30_EveryCallWithContext ==
  (lastOp \in Executions /\ Supplied # "none") =>
    \A i \in 1..Len(calls) :
      calls[i].op \in {"Query", "Prepare", "Exec", "StmtExec"} => calls[i].ctx = Supplied

\* The kind a field built from driver metadata has for a scan kind.
KindOf(kind) ==
  CASE kind = "string" -> "Text"
    [] kind \in {"int", "int8", "int16", "int32", "int64"} -> "Integer"
    [] kind \in {"float32", "float64"} -> "Float"
    [] kind = "time" -> "DateTime"
    [] kind = "bool" -> "Boolean"
    [] OTHER -> "unset"

\* C31: an Open that succeeds on a DataSet whose fields were declared before
\* gives every declared field order = position + 1 and index = position and
\* leaves its name and its kind as they were; on a DataSet without fields it
\* builds one field per column of the result, whose kind is Text for a
\* string, Integer for the integer widths, Float for the floating widths,
\* DateTime for the temporal struct, Boolean for a boolean and unset for
\* anything else.
C31_DeclaredKindKept ==
  [][(lastOp' \in Opens /\ result' = "ok") =>
       IF Fields # <<>>
       THEN /\ Len(Fields') = Len(Fields)
            /\ \A i \in 1..Len(Fields) :
                 /\ Fields'[i].Name = Fields[i].Name
                 /\ Fields'[i].Kind = Fields[i].Kind
                 /\ Fields'[i].Order = i
                 /\ Fields'[i].Index = i - 1
       ELSE /\ Len(Fields') = Len(DriverColumns)
            /\ \A i \in 1..Len(Fields') :
                 /\ Fields'[i].Name = DriverColumns[i]
                 /\ Fields'[i].Kind = KindOf(arg'.v[i])
                 /\ Fields'[i].Order = i
                 /\ Fields'[i].Index = i - 1]_vars

\* C32: Exec and ExecContext never apply the master-detail wrapper: whatever
\* master is attached, the statement they send is the assembled statement,
\* translated for the dialect, without "select * from (...) t where ...",
\* and the parameter list is as it was (no alias is registered).
C32_ExecNeverWraps ==
  [][lastOp' \in {"Exec", "ExecContext"} =>
       /\ Params' = Params
       /\ out' = IF Dialect = "POSTGRESQL"
                 THEN Translated(Normalize(Sql), 0, Params)
                 ELSE Normalize(Sql)
       /\ LinkedByFields =>
            /\ out' # Wrapper(Normalize(Sql))
            /\ \A i \in 0..(Len(MasterSource.MasterFields) - 1) :
                 (\E p \in 1..Len(Params') : Params'[p].Name = AliasName(i))
                   => \E p \in 1..Len(Params) : Params[p].Name = AliasName(i)]_vars

\* C32 witness: ExecContext has run under the positional dialect on a detail
\* with a fully configured link, its master on a row, and a statement that
\* names a parameter.
C32_Witness ==
  /\ lastOp = "ExecContext"
  /\ result = "ok"
  /\ Dialect = "POSTGRESQL"
  /\ LinkedByFields
  /\ MasterOnRow
  /\ Sql = T_WhereA
  /\ Params = <<InParam(<<"a">>)>>
  /\ IndexOf(out, <<"=", " ", "$", "1">>) >= 0

\* C33: after an Open or OpenContext that returned an error the DataSet
\* holds no rows and its cursor is reset: Count is 0, index and recno are 0,
\* Bof and Eof both hold, also when an earlier Open had loaded rows.
C33_FailedOpenLeavesNoRows ==
  (lastOp \in Opens /\ result = "err") =>
    /\ Count = 0
    /\ Rows = <<>>
    /\ Index = 0
    /\ Recno = 0
    /\ Bof
    /\ Eof

\* C33 witness: an earlier Open had succeeded (the fields it built are
\* there) and the Open that just ran failed after a reconnect and a retry.
C33_Witness ==
  /\ lastOp = "Open"
  /\ result = "err"
  /\ Fields # <<>>
  /\ CountOp(calls, "Query") = 2
  /\ Rows = <<>>

\* C34: assembling or opening a detail DataSet only reads its master: the
\* master's rows, index, recno, parameters and SQL text are after the
\* detail's GetSqlMasterDetail, Open or OpenContext what they were before,
\* whether the query succeeded, failed or the assembly panicked.
C34_MasterOnlyRead ==
  [][lastOp' \in Assemblies =>
       /\ master'.Rows = master.Rows
       /\ master'.Index = master.Index
       /\ master'.Recno = master.Recno
       /\ master'.Params = master.Params
       /\ master'.Sql = master.Sql]_vars

\* C34 witness: the master had been moved to its second row and is still
\* there, with its parameter and statement, after an Open of the detail
\* that read its value 8 and then failed at the query.
C34_Witness ==
  /\ lastOp = "Open"
  /\ result = "err"
  /\ LinkedByFields
  /\ master.Recno = 2
  /\ master.Index = 1
  /\ Len(master.Rows) = 2
  /\ master.Params = <<InParam(<<"a">>)>>
  /\ master.Sql = T_WhereA
  /\ \E p \in 1..Len(Params) : Params[p].Value = IntV(8)

\* A step in which the handler named kind answered a request.
Answered(kind) ==
  /\ <<request, response>>' # <<request, response>>
  /\ response'.handler = kind

\* C35: with JWT enabled and a configuration with RequireAuth registered for
\* the entity, RequireEntityAuth passes a request on only if a user is present
\* and RequireAdmin implies an admin, a non-empty RequiredRoles implies one of
\* those roles and a non-empty RequiredScopes implies one of those scopes; a
\* missing user gives 401 whatever else fails, every other failure gives 403.
\* With JWT disabled every request passes, and without a configuration the
\* global RequireAuth setting decides.
C35_EntityAuthGate ==
  [][Answered("RequireEntityAuth") =>
       LET e == response'.entityName
           user == request'.user
           status == response'.status
       IN /\ ~config.EnableJWT => status = "next"
          /\ (config.EnableJWT /\ e \notin DOMAIN entityAuth) =>
               status = (IF config.RequireAuth /\ ~user.present THEN "401" ELSE "next")
          /\ (config.EnableJWT /\ e \in DOMAIN entityAuth /\ entityAuth[e].RequireAuth) =>
               LET cfg == entityAuth[e]
                   allowed ==
                     /\ user.present
                     /\ cfg.RequireAdmin => user.Admin
                     /\ cfg.RequiredRoles # <<>> =>
                          \E i \in DOMAIN cfg.RequiredRoles : cfg.RequiredRoles[i] \in user.Roles
                     /\ cfg.RequiredScopes # <<>> =>
                          \E i \in DOMAIN cfg.RequiredScopes : cfg.RequiredScopes[i] \in user.Scopes
               IN /\ status = "next" <=> allowed
                  /\ ~user.present => status = "401"
                  /\ (user.present /\ ~allowed) => status = "403"]_vars

\* A user without the required scope was refused with 403 by an entity whose
\* configuration asks for authentication and that scope only.
C35_Witness ==
  /\ config.EnableJWT
  /\ response.handler = "RequireEntityAuth"
  /\ response.status = "403"
  /\ request.user.present
  /\ request.user.Scopes = {}
  /\ response.entityName \in DOMAIN entityAuth
  /\ entityAuth[response.entityName] =
       [ZeroConfig EXCEPT !.RequireAuth = TRUE, !.RequiredScopes = <<"write">>]

\* C36: CheckEntityReadOnly answers 403 to every request whose method is not
\* GET on an entity whose configuration, as registered when the request
\* arrives, has ReadOnly set, and passes on every GET request and every
\* request on an entity without a configuration or with ReadOnly unset.
C36_ReadOnlyGate ==
  [][Answered("CheckEntityReadOnly") =>
       LET e == response'.entityName
           readOnly == e \in DOMAIN entityAuth /\ entityAuth[e].ReadOnly
       IN response'.status =
            (IF readOnly /\ request'.method # "GET" THEN "403" ELSE "next")]_vars

====
